---- MODULE Spec2Model ----
(***************************************************************************)
(* A model of the chat-session backend of wuyange/ai_study (src/backend):  *)
(* the ChatService agent cache and chat methods (chat_service.py), the     *)
(* DatabaseManager store operations (db_operations.py, database.py) and    *)
(* the FastAPI handlers that combine them (main.py), and the termination   *)
(* condition SourcePrefixTermination (termination_condition.py).           *)
(*                                                                         *)
(* Text is a sequence of string tokens, so that concatenation is \o and a  *)
(* prefix test is a comparison of SubSeq.                                  *)
(***************************************************************************)
EXTENDS Integers, Sequences, FiniteSets, TLC

(***************************************************************************)
(* Bounds of the model.                                                    *)
(***************************************************************************)
\* ChatService(settings, max_agents): the capacity the service is built with
\* (the constructor's default is 50; the model builds a small one).
max_agents == 2
\* Session ids that requests may name (uuid4 strings in the code).
NumSessionIds == 3
\* AssistantAgent instances constructed over a run.
MaxAgentsMade == 4
\* Calls of _get_or_create_agent recorded in use_log between two clears.
MaxUses == 4

\* Session rows created over a run, and so the ids HTTP requests name.
MaxSessions == 2
\* HTTP chat requests over a run.
MaxReqs == 1
\* Direct calls of the ChatService context methods over a run.
MaxCalls == 1
\* Events one completion stream delivers before it ends or raises.
MaxEvents == 2
\* Readings of the clock: datetime.utcnow() returns 0..MaxClock.
MaxClock == 1

\* Chat requests one caller issues one after another.
MaxSeqReqs == 2
\* Calls of the ChatService context methods that may run at the same time.
MaxConcurrent == 2
\* Direct calls of DatabaseManager.add_message over a run.
MaxAppends == 2
\* Sessions, and rows of messages, in a run of the title handlers.
MaxTitled == 1
\* The rows of a history passed to a context method.
MaxHistory == 2
\* The limits passed to get_session_messages are 1..MaxLimit.
MaxLimit == 2
\* The host's zone: datetime.now() - datetime.utcnow() is in
\* -MaxOffset..MaxOffset clock units.
MaxOffset == 1

\* main.py 389, 434: get_session_messages(session_id, limit=20)
HISTORY_LIMIT == 20

SessionIds == 1..NumSessionIds
StoreIds == 1..MaxSessions
Max(a, b) == IF a > b THEN a ELSE b
\* The request slots; each kind of call uses the first slots.
Reqs == 1..Max(Max(Max(MaxReqs, MaxCalls), Max(MaxAppends, MaxSeqReqs)),
               Max(MaxConcurrent, max_agents + 1))
Concurrent == 1..MaxConcurrent
\* One more caller than the cache holds agents.
Callers == 1..(max_agents + 1)
SeqReqs == 1..MaxSeqReqs
Appends == 1..MaxAppends
Limits == 1..MaxLimit
Offsets == (0 - MaxOffset)..MaxOffset
HttpReqs == 1..MaxReqs
Calls == 1..MaxCalls

\* None of Python.
None == "None"

(***************************************************************************)
(* State.                                                                  *)
(***************************************************************************)
VARIABLES
    initialized,   \* ChatService.initialized
    model_client,  \* ChatService.model_client: None or the client
    agents,        \* ChatService.agents, the OrderedDict as a sequence of
                   \* [session_id, agent], first inserted / least recently
                   \* used first
    agents_made,   \* number of AssistantAgent objects constructed for the
                   \* cache so far; the next one is agent agents_made + 1
    ret,           \* what the last direct call of a cache method returned
    use_log,       \* history: the session ids passed to
                   \* _get_or_create_agent since the cache was last cleared
    lru_exact      \* history: no remove_agent dropped an entry since the
                   \* cache was last cleared

VARIABLES
    sessions,      \* table sessions: id -> [title, created_at, updated_at]
    sids_made,     \* number of session ids uuid4 has handed out; ids are
                   \* never reused
    messages,      \* table messages in insertion order: [id, session_id,
                   \* role, content, timestamp], and by, the request that
                   \* appended the row (history, no column of the table)
    now,           \* the last reading of the UTC clock
    utc_offset,    \* datetime.now() - datetime.utcnow() of the host
    req            \* the chat requests: per request its kind, its position
                   \* and the locals of its handler or generator

VARIABLES
    condition,     \* the SourcePrefixTermination object as an Optional:
                   \* its fields _prefix and _terminated
    called         \* what the last call on the object was given and what
                   \* it returned or raised

cacheVars == <<initialized, model_client, agents, agents_made, ret, use_log, lru_exact>>
storeVars == <<sessions, sids_made, messages, now, utc_offset>>
terminationVars == <<condition, called>>

vars == <<cacheVars, storeVars, terminationVars, req>>

(***************************************************************************)
(* Sequence helpers.                                                       *)
(***************************************************************************)
Range(q) == {q[i] : i \in 1..Len(q)}

Last(q) == q[Len(q)]

Min(a, b) == IF a < b THEN a ELSE b

\* q[:n] of Python.
Take(q, n) == SubSeq(q, 1, Min(n, Len(q)))

\* reversed(q)
Reverse(q) == [i \in 1..Len(q) |-> q[Len(q) + 1 - i]]

\* str.startswith
StartsWith(s, prefix) ==
    /\ Len(s) >= Len(prefix)
    /\ SubSeq(s, 1, Len(prefix)) = prefix

\* The concatenation of the texts of q, in order.
RECURSIVE Concat(_)
Concat(q) == IF q = <<>> THEN <<>> ELSE Head(q) \o Concat(Tail(q))

\* The orders in which the elements of the finite set S can be listed.
Listings(S) ==
    {f \in [1..Cardinality(S) -> S] : \A i, j \in 1..Cardinality(S) : f[i] = f[j] => i = j}

(***************************************************************************)
(* ChatService: the agent cache (chat_service.py).                         *)
(***************************************************************************)
\* The keys of the OrderedDict, in its order.
Keys(od) == [i \in 1..Len(od) |-> od[i].session_id]

\* session_id in self.agents
InAgents(od, session_id) == \E i \in 1..Len(od) : od[i].session_id = session_id

\* self.agents[session_id]
AgentOf(od, session_id) ==
    (CHOOSE e \in Range(od) : e.session_id = session_id).agent

\* A hit that leaves the entry where it is (the recency order is not updated).
MoveToEnd_in_place(od, session_id) == od

\* OrderedDict.move_to_end(session_id)
MoveToEnd(od, session_id) ==
    LET NotIt(e) == e.session_id # session_id
    IN  SelectSeq(od, NotIt) \o <<[session_id |-> session_id, agent |-> AgentOf(od, session_id)]>>

\* OrderedDict.pop(session_id)
Pop(od, session_id) ==
    LET NotIt(e) == e.session_id # session_id
    IN  SelectSeq(od, NotIt)

\* An insertion that never evicts.
EvictOldest_never(od) == od

\* Lines 110-114: over capacity, pop next(iter(self.agents)), the first key.
EvictOldest(od) ==
    IF Len(od) > max_agents THEN Pop(od, Head(od).session_id) ELSE od

\* A lookup that constructs an agent on every call, replacing a resident one.
GetOrCreate_always_new(od, session_id, made) ==
    [agents |-> EvictOldest(Pop(od, session_id) \o <<[session_id |-> session_id, agent |-> made + 1]>>),
     agent  |-> made + 1,
     made   |-> made + 1]

\* A call that leaves after its insertion, the eviction not yet done.
GetOrCreate_insert_only(od, session_id, made) ==
    IF InAgents(od, session_id)
    THEN [agents |-> MoveToEnd(od, session_id),
          agent  |-> AgentOf(od, session_id),
          made   |-> made]
    ELSE [agents |-> od \o <<[session_id |-> session_id, agent |-> made + 1]>>,
          agent  |-> made + 1,
          made   |-> made + 1]

\* A miss that hands out the agent of the entry used least recently instead
\* of constructing one.
GetOrCreate_shared(od, session_id, made) ==
    IF InAgents(od, session_id)
    THEN [agents |-> MoveToEnd(od, session_id),
          agent  |-> AgentOf(od, session_id),
          made   |-> made]
    ELSE IF od # <<>>
    THEN [agents |-> EvictOldest(od \o <<[session_id |-> session_id, agent |-> Head(od).agent]>>),
          agent  |-> Head(od).agent,
          made   |-> made + 1]
    ELSE [agents |-> EvictOldest(od \o <<[session_id |-> session_id, agent |-> made + 1]>>),
          agent  |-> made + 1,
          made   |-> made + 1]


\* _get_or_create_agent past its initialisation check: the mapping it leaves,
\* the agent it returns and whether it constructed one. made is the number of
\* agents constructed before the call.
GetOrCreate(od, session_id, made) ==
    IF InAgents(od, session_id)
    THEN [agents |-> MoveToEnd(od, session_id),
          agent  |-> AgentOf(od, session_id),
          made   |-> made]
    ELSE [agents |-> EvictOldest(od \o <<[session_id |-> session_id, agent |-> made + 1]>>),
          agent  |-> made + 1,
          made   |-> made + 1]

\* A call may construct an agent only while the model's supply lasts.
CanGetOrCreate(od, session_id) ==
    /\ Len(use_log) < MaxUses
    /\ InAgents(od, session_id) \/ agents_made < MaxAgentsMade

\* ChatService.initialize
initialize ==
    /\ IF initialized
       THEN UNCHANGED <<initialized, model_client>>
       ELSE /\ model_client' = "client"
            /\ initialized' = TRUE
    /\ UNCHANGED <<agents, agents_made, ret, use_log, lru_exact, storeVars, terminationVars, req>>

\* ChatService.cleanup: clear_all_agents, then drop the client.
cleanup ==
    /\ agents' = <<>>
    /\ model_client' = None
    /\ initialized' = FALSE
    /\ use_log' = <<>>
    /\ lru_exact' = TRUE
    /\ UNCHANGED <<agents_made, ret, storeVars, terminationVars, req>>

\* A direct call of ChatService._get_or_create_agent(session_id).
get_or_create_agent(session_id) ==
    IF ~initialized \/ model_client = None
    THEN /\ ret' = [op |-> "get_or_create", session_id |-> session_id, raised |-> "RuntimeError", agent |-> 0]
         /\ UNCHANGED <<initialized, model_client, agents, agents_made, use_log, lru_exact, storeVars, terminationVars, req>>
    ELSE /\ CanGetOrCreate(agents, session_id)
         /\ LET g == GetOrCreate(agents, session_id, agents_made)
            IN  /\ agents' = g.agents
                /\ agents_made' = g.made
                /\ ret' = [op |-> "get_or_create", session_id |-> session_id, raised |-> None, agent |-> g.agent]
         /\ use_log' = Append(use_log, session_id)
         /\ UNCHANGED <<initialized, model_client, lru_exact, storeVars, terminationVars, req>>

\* A removal that drops the entry used least recently, whichever id is named.
remove_agent_oldest(session_id) ==
    /\ IF InAgents(agents, session_id)
       THEN /\ agents' = Tail(agents)
            /\ lru_exact' = FALSE
       ELSE UNCHANGED <<agents, lru_exact>>
    /\ ret' = [op |-> "remove", session_id |-> session_id, raised |-> None, agent |-> 0]
    /\ UNCHANGED <<initialized, model_client, agents_made, use_log, storeVars, terminationVars, req>>


\* ChatService.remove_agent(session_id)
remove_agent(session_id) ==
    /\ IF InAgents(agents, session_id)
       THEN /\ agents' = Pop(agents, session_id)
            /\ lru_exact' = FALSE
       ELSE UNCHANGED <<agents, lru_exact>>
    /\ ret' = [op |-> "remove", session_id |-> session_id, raised |-> None, agent |-> 0]
    /\ UNCHANGED <<initialized, model_client, agents_made, use_log, storeVars, terminationVars, req>>

\* ChatService.clear_all_agents
clear_all_agents ==
    /\ agents' = <<>>
    /\ use_log' = <<>>
    /\ lru_exact' = TRUE
    /\ ret' = [op |-> "clear", session_id |-> 0, raised |-> None, agent |-> 0]
    /\ UNCHANGED <<initialized, model_client, agents_made, storeVars, terminationVars, req>>

(***************************************************************************)
(* DatabaseManager: the conversation store (db_operations.py, database.py) *)
(***************************************************************************)
\* Session.title's default in create_session and in the create handler.
DefaultTitle == <<"n", "e", "w">>

\* datetime.now(), the host's local time.
LocalNow == now + utc_offset

\* The readings two successive calls of datetime.utcnow() can give.
ClockReadings ==
    {c \in (now..Min(now + 1, MaxClock)) \X (now..Min(now + 1, MaxClock)) : c[1] <= c[2]}

\* An Optional row: <<>> for None, <<row>> for a row.
NoRow == <<>>

\* DatabaseManager.get_session: the row or None (the lookup is by primary key).
get_session(session_id) ==
    IF session_id \in DOMAIN sessions THEN <<sessions[session_id]>> ELSE NoRow

\* DatabaseManager.create_session(title): a new row under a fresh uuid4, its
\* created_at and updated_at from the column default datetime.now.
create_session(title) ==
    /\ sids_made < MaxSessions
    /\ sids_made' = sids_made + 1
    /\ sessions' = [id \in DOMAIN sessions \cup {sids_made + 1} |->
                      IF id = sids_made + 1
                      THEN [title |-> title, created_at |-> LocalNow, updated_at |-> LocalNow]
                      ELSE sessions[id]]
    /\ UNCHANGED <<messages, now, utc_offset, terminationVars>>

\* DatabaseManager.delete_session: DELETE FROM sessions WHERE id = :id, a
\* statement on the sessions table alone. The relationship's cascade acts
\* only on objects deleted through the ORM session, the foreign key carries
\* no ON DELETE rule, and the engine is opened without PRAGMA foreign_keys,
\* so the rows of messages stay.
delete_session(session_id) ==
    /\ sessions' = [id \in DOMAIN sessions \ {session_id} |-> sessions[id]]
    /\ UNCHANGED <<sids_made, messages, now, utc_offset, terminationVars>>

\* DatabaseManager.add_message: the UPDATE's value datetime.utcnow() is read
\* when the statement is built, the row's timestamp default when the INSERT
\* is flushed; both are committed together. The UPDATE matches no row when
\* the session is absent and the INSERT is not refused.
add_message(session_id, role, content, by) ==
    \E c \in ClockReadings :
        /\ messages' = Append(messages,
                [id |-> Len(messages) + 1, session_id |-> session_id, role |-> role,
                 content |-> content, timestamp |-> c[2], by |-> by])
        /\ sessions' = [id \in DOMAIN sessions |->
                          IF id = session_id
                          THEN [sessions[id] EXCEPT !.updated_at = c[1]]
                          ELSE sessions[id]]
        /\ now' = c[2]
        /\ UNCHANGED <<sids_made, utc_offset, terminationVars>>

\* The rows of messages of one session.
RowsOf(session_id) == {m \in Range(messages) : m.session_id = session_id}

\* A read that sees none of the rows.
get_session_messages_none(session_id, limit) == {<<>>}

\* DatabaseManager.get_session_messages: SELECT ... ORDER BY timestamp DESC
\* LIMIT :limit, reversed. Rows of equal timestamp come in an order the
\* query does not fix; the operator is the set of lists it can return.
get_session_messages(session_id, limit) ==
    {Reverse(Take(l, limit)) :
        l \in {f \in Listings(RowsOf(session_id)) :
                 \A i, j \in 1..Len(f) : i < j => f[i].timestamp >= f[j].timestamp}}

(***************************************************************************)
(* The completion backend, as the code sees it.                            *)
(***************************************************************************)
\* The text of a chat request (ChatRequest.message, at least one character).
UserText == <<"q">>

\* Text fragments a completion stream delivers.
Frags == {<<"a">>, <<"b">>}

Str_assistant == <<"a", "s", "s", "i", "s", "t", "a", "n", "t">>

\* Line 102: name=f"assistant_{session_id[:8]}"
AgentName(session_id) == Str_assistant \o <<"_", ToString(session_id)>>

\* What agent.run_stream can deliver next: a streaming chunk of the agent,
\* or a whole message of the agent (its full reply).
StreamEvents(session_id) ==
    {[type |-> "ModelClientStreamingChunkEvent", source |-> AgentName(session_id), content |-> f] : f \in Frags}
    \cup {[type |-> "TextMessage", source |-> AgentName(session_id), content |-> <<"a">>]}

\* What agent.run can return: a TaskResult whose messages end with the reply.
Responses ==
    {[messages |-> <<[content |-> UserText], [content |-> f]>>] : f \in Frags}

\* A filter that lets every event through.
IsAssistantChunk_any(chunk) == TRUE

\* Line 299: isinstance(chunk, ModelClientStreamingChunkEvent) and
\* chunk.source.startswith("assistant")
IsAssistantChunk(chunk) ==
    /\ chunk.type = "ModelClientStreamingChunkEvent"
    /\ StartsWith(chunk.source, Str_assistant)

\* ChatService._extract_response(response), for a response with messages.
extract_response(response) == Last(response.messages).content

\* Lines 232-244 and 284-292: the prompt built from the history.
RECURSIVE ContextLines(_)
ContextLines(history) ==
    IF history = <<>> THEN <<>>
    ELSE <<Head(history).role, ": ">> \o Head(history).content
         \o (IF Len(history) > 1 THEN <<"\n\n">> ELSE <<>>)
         \o ContextLines(Tail(history))

\* A prompt that lists the history from the newest message to the oldest.
BuildPrompt_newest_first(message, history) ==
    IF history # <<>>
    THEN <<"history:\n\n">> \o ContextLines(Reverse(history))
         \o <<"\n\nthe user now says: ">> \o message \o <<"\n\nreply using the context.">>
    ELSE message

BuildPrompt(message, history) ==
    IF history # <<>>
    THEN <<"history:\n\n">> \o ContextLines(history)
         \o <<"\n\nthe user now says: ">> \o message \o <<"\n\nreply using the context.">>
    ELSE message

\* chat_service.py lines 199 and 308: f"... {str(e)}", the text yielded for a failed completion.
ErrUpstream == <<"sorry, an error occurred: ", "upstream failure">>

(***************************************************************************)
(* Requests.                                                               *)
(***************************************************************************)
\* A request slot before its request arrives.
NoRequest ==
    [kind |-> None, pc |-> "idle", session_id |-> 0, message |-> <<>>,
     session |-> NoRow, history |-> <<>>, accumulated_content |-> <<>>,
     events |-> <<>>, response |-> [status |-> 0, body |-> <<>>],
     agent |-> 0, full_prompt |-> <<>>, chunk_count |-> 0, yielded |-> <<>>,
     returned |-> <<>>, raised |-> None, upstream |-> None, produced |-> <<>>,
     tx |-> <<>>]

\* Slot r takes the next request: the slots are used in order, once each.
Arrives(r) ==
    /\ req[r].pc = "idle"
    /\ \A q \in Reqs : q < r => req[q].pc # "idle"

\* Every request before slot r is over: the caller of r waited for them.
Sequential(r) == \A q \in Reqs : q < r => req[q].pc \in {"done", "cancelled"}

\* The positional parameters of the two context methods, after self.
chat_with_context_params == <<"session_id", "message", "history">>
stream_chat_with_context_params == <<"session_id", "message", "history">>

\* Python binds positional arguments to parameters without defaults only
\* when there is one argument per parameter; otherwise the call raises
\* TypeError before the body (for a generator function: before a generator
\* exists).
Binds(params, args) == Len(args) = Len(params)

\* The SSE events of the handlers: f"data: {json.dumps(payload)}\n\n".
ContentEvent(chunk) == [data |-> [content |-> chunk, role |-> "assistant"]]
ErrorEvent(text) == [data |-> [error |-> text]]

IsErrorEvent(e) == DOMAIN e.data = {"error"}
IsContentEvent(e) == DOMAIN e.data = {"content", "role"}

(***************************************************************************)
(* db_operations.py: DatabaseManager called directly, add_message step by  *)
(* step of its transaction.                                                *)
(***************************************************************************)
\* The ids uuid4 has handed out: those of the rows that exist or existed.
IssuedIds == 1..sids_made

\* SQLite admits one writing transaction at a time: a connection that has
\* flushed and not yet committed holds the write lock.
NoPendingWrite == \A k \in Reqs : req[k].pc # "flushed"

\* The readings one call of datetime.utcnow() can give.
utcnow == now..Min(now + 1, MaxClock)

\* DatabaseManager.update_session_title: UPDATE sessions SET title,
\* updated_at = datetime.utcnow() WHERE id = :id, committed; the result is
\* rowcount > 0.
update_session_title(session_id, title) ==
    \E c \in utcnow :
        /\ sessions' = [id \in DOMAIN sessions |->
                          IF id = session_id
                          THEN [sessions[id] EXCEPT !.title = title, !.updated_at = c]
                          ELSE sessions[id]]
        /\ now' = c
        /\ UNCHANGED <<sids_made, messages, utc_offset, terminationVars>>

\* add_message, lines 117-129: the Message is added to the unit of work, the
\* UPDATE is built with its datetime.utcnow(), and executing it flushes the
\* INSERT (the timestamp default is read then) and runs the UPDATE. Both
\* statements are in the connection's open transaction; the tables other
\* connections read are as before.
add_message_flush(k, session_id, role, content) ==
    /\ Arrives(k)
    /\ NoPendingWrite
    /\ \E c \in ClockReadings :
          /\ req' = [req EXCEPT ![k] =
                       [NoRequest EXCEPT !.kind = "add_message",
                                         !.session_id = session_id,
                                         !.message = content,
                                         !.tx = <<[role |-> role, timestamp |-> c[2], updated_at |-> c[1]]>>,
                                         !.pc = "flushed"]]
          /\ now' = c[2]
    /\ UNCHANGED <<cacheVars, sessions, sids_made, messages, utc_offset, terminationVars>>

\* A commit that makes the INSERT visible and loses the UPDATE.
add_message_commit_insert_only(k) ==
    /\ req[k].kind = "add_message"
    /\ req[k].pc = "flushed"
    /\ messages' = Append(messages,
            [id |-> Len(messages) + 1, session_id |-> req[k].session_id,
             role |-> req[k].tx[1].role, content |-> req[k].message,
             timestamp |-> req[k].tx[1].timestamp, by |-> k])
    /\ req' = [req EXCEPT ![k].pc = "done", ![k].tx = <<>>]
    /\ UNCHANGED <<cacheVars, sessions, sids_made, now, utc_offset, terminationVars>>

\* add_message, lines 131-133: the commit makes the INSERT and the UPDATE
\* visible together. The UPDATE changed no row when the session is absent;
\* the INSERT is not refused (foreign keys are not enforced).
add_message_commit(k) ==
    /\ req[k].kind = "add_message"
    /\ req[k].pc = "flushed"
    /\ messages' = Append(messages,
            [id |-> Len(messages) + 1, session_id |-> req[k].session_id,
             role |-> req[k].tx[1].role, content |-> req[k].message,
             timestamp |-> req[k].tx[1].timestamp, by |-> k])
    /\ sessions' = [id \in DOMAIN sessions |->
                      IF id = req[k].session_id
                      THEN [sessions[id] EXCEPT !.updated_at = req[k].tx[1].updated_at]
                      ELSE sessions[id]]
    /\ req' = [req EXCEPT ![k].pc = "done", ![k].tx = <<>>]
    /\ UNCHANGED <<cacheVars, sids_made, now, utc_offset, terminationVars>>

\* The commit raises (the database is locked or unwritable): the exception
\* leaves add_message, the caller's `async with AsyncSessionLocal()` closes
\* the session and the transaction is rolled back.
add_message_fail(k) ==
    /\ req[k].kind = "add_message"
    /\ req[k].pc = "flushed"
    /\ req' = [req EXCEPT ![k].pc = "done", ![k].tx = <<>>, ![k].raised = "OperationalError"]
    /\ UNCHANGED <<cacheVars, storeVars, terminationVars>>

(***************************************************************************)
(* main.py: the session handlers.                                          *)
(***************************************************************************)
\* SessionCreate.title as the request gives it: absent or empty, or a text.
RequestTitles == {<<>>, <<"t">>}

\* A handler that stores the request's title as it is.
create_session_handler_verbatim(title) ==
    /\ create_session(title)
    /\ UNCHANGED <<cacheVars, req>>

\* POST /api/sessions: title=request.title or the default.
create_session_handler(title) ==
    /\ create_session(IF title = <<>> THEN DefaultTitle ELSE title)
    /\ UNCHANGED <<cacheVars, req>>

\* DELETE /api/sessions/{session_id}: the store's delete and nothing else;
\* an absent id is answered 404.
delete_session_handler(session_id) ==
    /\ delete_session(session_id)
    /\ UNCHANGED <<cacheVars, req>>

(***************************************************************************)
(* main.py: POST /api/sessions/{session_id}/chat/stream.                   *)
(***************************************************************************)
ErrNotInitialized == <<"chat service not initialized">>
ErrNoSession == <<"session does not exist">>
ErrTypeError == <<"missing 1 required positional argument: 'history'">>

\* stream_chat_with_session, lines 465-486: 503 when the service is not
\* initialized, else a StreamingResponse over the generator.
stream_chat_with_session(r, session_id, message) ==
    /\ Arrives(r)
    /\ req' = [req EXCEPT ![r] =
                 [NoRequest EXCEPT !.kind = "stream_endpoint",
                                   !.session_id = session_id,
                                   !.message = message,
                                   !.pc = IF initialized THEN "start" ELSE "done",
                                   !.response = IF initialized
                                                THEN [status |-> 200, body |-> <<>>]
                                                ELSE [status |-> 503, body |-> ErrNotInitialized]]]
    /\ UNCHANGED <<cacheVars, storeVars, terminationVars>>

\* event_generator_with_session, lines 416-421.
event_generator_start(r) ==
    /\ req[r].kind = "stream_endpoint"
    /\ req[r].pc = "start"
    /\ IF ~initialized
       THEN req' = [req EXCEPT ![r].events = Append(@, ErrorEvent(ErrNotInitialized)),
                               ![r].pc = "done"]
       ELSE req' = [req EXCEPT ![r].accumulated_content = <<>>,
                               ![r].pc = "validate"]
    /\ UNCHANGED <<cacheVars, storeVars, terminationVars>>

\* A generator that goes on without the session check.
event_generator_validate_unchecked(r) ==
    /\ req[r].kind = "stream_endpoint"
    /\ req[r].pc = "validate"
    /\ req' = [req EXCEPT ![r].session = get_session(req[r].session_id),
                          ![r].pc = "history"]
    /\ UNCHANGED <<cacheVars, storeVars, terminationVars>>

\* Lines 424-431: the session is looked up; without it one error event is
\* yielded and the generator returns.
event_generator_validate(r) ==
    /\ req[r].kind = "stream_endpoint"
    /\ req[r].pc = "validate"
    /\ LET session == get_session(req[r].session_id)
       IN  IF session = NoRow
           THEN req' = [req EXCEPT ![r].session = session,
                                   ![r].events = Append(@, ErrorEvent(ErrNoSession)),
                                   ![r].pc = "done"]
           ELSE req' = [req EXCEPT ![r].session = session,
                                   ![r].pc = "history"]
    /\ UNCHANGED <<cacheVars, storeVars, terminationVars>>

\* Line 434.
event_generator_history(r) ==
    /\ req[r].kind = "stream_endpoint"
    /\ req[r].pc = "history"
    /\ \E h \in get_session_messages(req[r].session_id, HISTORY_LIMIT) :
          req' = [req EXCEPT ![r].history = h, ![r].pc = "save_user"]
    /\ UNCHANGED <<cacheVars, storeVars, terminationVars>>

\* A generator that stores an assistant row where the user's message belongs.
event_generator_save_user_as_reply(r) ==
    /\ req[r].kind = "stream_endpoint"
    /\ req[r].pc = "save_user"
    /\ add_message(req[r].session_id, "assistant", req[r].message, r)
    /\ req' = [req EXCEPT ![r].pc = "call"]
    /\ UNCHANGED cacheVars


\* Line 437.
event_generator_save_user(r) ==
    /\ req[r].kind = "stream_endpoint"
    /\ req[r].pc = "save_user"
    /\ add_message(req[r].session_id, "user", req[r].message, r)
    /\ req' = [req EXCEPT ![r].pc = "call"]
    /\ UNCHANGED cacheVars

\* A generator whose except branch also stores what it accumulated.
event_generator_call_commits(r) ==
    /\ req[r].kind = "stream_endpoint"
    /\ req[r].pc = "call"
    /\ ~Binds(stream_chat_with_context_params, <<req[r].message, req[r].history>>)
    /\ add_message(req[r].session_id, "assistant", req[r].accumulated_content, r)
    /\ req' = [req EXCEPT ![r].raised = "TypeError",
                          ![r].events = Append(@, ErrorEvent(<<"stream chat error: ">> \o ErrTypeError)),
                          ![r].pc = "done"]
    /\ UNCHANGED cacheVars

\* Line 443 and lines 459-462: the call
\*     chat_service.stream_chat_with_context(message, history)
\* passes two arguments for the three parameters session_id, message and
\* history. It raises TypeError; the except branch yields one error event
\* and the generator ends. Nothing of lines 444-457 (the relay loop, the
\* assistant message's add_message, the [DONE] event) is ever run, so the
\* model has no step for them.
event_generator_call(r) ==
    /\ req[r].kind = "stream_endpoint"
    /\ req[r].pc = "call"
    /\ ~Binds(stream_chat_with_context_params, <<req[r].message, req[r].history>>)
    /\ req' = [req EXCEPT ![r].raised = "TypeError",
                          ![r].events = Append(@, ErrorEvent(<<"stream chat error: ">> \o ErrTypeError)),
                          ![r].pc = "done"]
    /\ UNCHANGED <<cacheVars, storeVars, terminationVars>>

\* The caller goes away while the response is being streamed. The server
\* cancels the task that iterates the generator: CancelledError (or, when
\* the generator is collected, GeneratorExit) is raised where the generator
\* waits. Neither is an Exception, so `except Exception` (line 459) does not
\* run, and no statement of the generator is outside the try or in a
\* finally: the generator runs no further line.
disconnect(r) ==
    /\ req[r].kind = "stream_endpoint"
    /\ req[r].pc \in {"start", "validate", "history", "save_user", "call"}
    /\ req' = [req EXCEPT ![r].pc = "cancelled"]
    /\ UNCHANGED <<cacheVars, storeVars, terminationVars>>

(***************************************************************************)
(* main.py: POST /api/sessions/{session_id}/chat.                          *)
(***************************************************************************)
\* chat_with_session, lines 371-375.
chat_with_session(r, session_id, message) ==
    /\ Arrives(r)
    /\ req' = [req EXCEPT ![r] =
                 [NoRequest EXCEPT !.kind = "chat_endpoint",
                                   !.session_id = session_id,
                                   !.message = message,
                                   !.pc = IF initialized THEN "validate" ELSE "done",
                                   !.response = IF initialized
                                                THEN [status |-> 0, body |-> <<>>]
                                                ELSE [status |-> 503, body |-> ErrNotInitialized]]]
    /\ UNCHANGED <<cacheVars, storeVars, terminationVars>>

\* Lines 381-386.
chat_validate(r) ==
    /\ req[r].kind = "chat_endpoint"
    /\ req[r].pc = "validate"
    /\ LET session == get_session(req[r].session_id)
       IN  IF session = NoRow
           THEN req' = [req EXCEPT ![r].session = session,
                                   ![r].response = [status |-> 404, body |-> ErrNoSession],
                                   ![r].pc = "done"]
           ELSE req' = [req EXCEPT ![r].session = session,
                                   ![r].pc = "history"]
    /\ UNCHANGED <<cacheVars, storeVars, terminationVars>>

\* Line 389.
chat_history(r) ==
    /\ req[r].kind = "chat_endpoint"
    /\ req[r].pc = "history"
    /\ \E h \in get_session_messages(req[r].session_id, HISTORY_LIMIT) :
          req' = [req EXCEPT ![r].history = h, ![r].pc = "save_user"]
    /\ UNCHANGED <<cacheVars, storeVars, terminationVars>>

\* A handler that reads its history again once the user's message is stored.
chat_save_user_then_history(r) ==
    /\ req[r].kind = "chat_endpoint"
    /\ req[r].pc = "save_user"
    /\ add_message(req[r].session_id, "user", req[r].message, r)
    /\ req' = [req EXCEPT ![r].history = Append(@, Last(messages')),
                          ![r].pc = "call"]
    /\ UNCHANGED cacheVars


\* A handler that does not store the user's message before the call.
chat_save_user_skipped(r) ==
    /\ req[r].kind = "chat_endpoint"
    /\ req[r].pc = "save_user"
    /\ req' = [req EXCEPT ![r].pc = "call"]
    /\ UNCHANGED <<cacheVars, storeVars, terminationVars>>

\* Line 392.
chat_save_user(r) ==
    /\ req[r].kind = "chat_endpoint"
    /\ req[r].pc = "save_user"
    /\ add_message(req[r].session_id, "user", req[r].message, r)
    /\ req' = [req EXCEPT ![r].pc = "call"]
    /\ UNCHANGED cacheVars

\* Line 396 and lines 403-408: the call
\*     chat_service.chat_with_context(request.message, history)
\* passes two arguments for the three parameters; it raises TypeError, which
\* the except branch turns into a 500 response. Lines 398-401 (the assistant
\* message's add_message, the ChatResponse) are never run.
chat_call(r) ==
    /\ req[r].kind = "chat_endpoint"
    /\ req[r].pc = "call"
    /\ ~Binds(chat_with_context_params, <<req[r].message, req[r].history>>)
    /\ req' = [req EXCEPT ![r].raised = "TypeError",
                          ![r].response = [status |-> 500, body |-> <<"chat failed: ">> \o ErrTypeError],
                          ![r].pc = "done"]
    /\ UNCHANGED <<cacheVars, storeVars, terminationVars>>

(***************************************************************************)
(* main.py: POST /api/chat/stream, the endpoint without a session, and the *)
(* generator ChatService.stream_chat it relays.                            *)
(***************************************************************************)
\* Line 186: the literal "data: [DONE]\n\n", an event whose data is no JSON
\* object.
DoneEvent == [data |-> [marker |-> "[DONE]"]]

IsDoneEvent(e) == e = DoneEvent

\* What the temporary agent's run_stream can deliver next (chat_service.py
\* lines 182-190): the agent is named "assistant".
LegacyStreamEvents ==
    {[type |-> "ModelClientStreamingChunkEvent", source |-> Str_assistant, content |-> f] : f \in Frags}
    \cup {[type |-> "TextMessage", source |-> Str_assistant, content |-> <<"a">>]}

\* chat_service.py line 193: isinstance(chunk, ModelClientStreamingChunkEvent)
\* and chunk.source == "assistant"
IsLegacyChunk(chunk) ==
    /\ chunk.type = "ModelClientStreamingChunkEvent"
    /\ chunk.source = Str_assistant

\* stream_chat, main.py lines 193-211.
stream_chat(r, message) ==
    /\ Arrives(r)
    /\ req' = [req EXCEPT ![r] =
                 [NoRequest EXCEPT !.kind = "legacy_stream",
                                   !.message = message,
                                   !.pc = IF initialized THEN "start" ELSE "done",
                                   !.response = IF initialized
                                                THEN [status |-> 200, body |-> <<>>]
                                                ELSE [status |-> 503, body |-> ErrNotInitialized]]]
    /\ UNCHANGED <<cacheVars, storeVars, terminationVars>>

\* event_generator, main.py lines 167-176, and ChatService.stream_chat up to
\* its run_stream (chat_service.py lines 175-190): the check of the
\* generator, then the check of the service on the first iteration, whose
\* RuntimeError the generator's except branch would report.
event_generator_begin(r) ==
    /\ req[r].kind = "legacy_stream"
    /\ req[r].pc = "start"
    /\ IF ~initialized
       THEN req' = [req EXCEPT ![r].events = Append(@, ErrorEvent(ErrNotInitialized)),
                               ![r].pc = "done"]
       ELSE IF model_client = None
       THEN req' = [req EXCEPT ![r].raised = "RuntimeError",
                               ![r].events = Append(@, ErrorEvent(<<"stream chat error: ">> \o ErrNotInitialized)),
                               ![r].pc = "done"]
       ELSE req' = [req EXCEPT ![r].upstream = "open", ![r].pc = "relaying"]
    /\ UNCHANGED <<cacheVars, storeVars, terminationVars>>

\* chat_service.py lines 192-194 and main.py lines 176-181: the next event
\* of the stream; a chunk of the agent is yielded by the service and sent
\* on as one content event.
event_generator_relay(r) ==
    /\ req[r].kind = "legacy_stream"
    /\ req[r].pc = "relaying"
    /\ Len(req[r].produced) < MaxEvents
    /\ \E chunk \in LegacyStreamEvents :
          IF IsLegacyChunk(chunk)
          THEN req' = [req EXCEPT ![r].produced = Append(@, chunk),
                                  ![r].yielded = Append(@, chunk.content),
                                  ![r].events = Append(@, ContentEvent(chunk.content)),
                                  ![r].chunk_count = @ + 1]
          ELSE req' = [req EXCEPT ![r].produced = Append(@, chunk)]
    /\ UNCHANGED <<cacheVars, storeVars, terminationVars>>

\* The stream is exhausted: the service's generator ends and main.py line
\* 186 sends the end marker.
event_generator_finish(r) ==
    /\ req[r].kind = "legacy_stream"
    /\ req[r].pc = "relaying"
    /\ req' = [req EXCEPT ![r].upstream = "ended",
                          ![r].events = Append(@, DoneEvent),
                          ![r].pc = "done"]
    /\ UNCHANGED <<cacheVars, storeVars, terminationVars>>

\* The completion raises. ChatService.stream_chat catches it (chat_service.py
\* lines 196-199) and yields the text of the error as one more chunk; its
\* generator then ends normally. event_generator sends that chunk as a
\* content event (line 178) and, its loop over, the end marker (line 186);
\* its own except branch (lines 188-190) does not run.
event_generator_upstream_raises(r) ==
    /\ req[r].kind = "legacy_stream"
    /\ req[r].pc = "relaying"
    /\ req' = [req EXCEPT ![r].upstream = "raised",
                          ![r].yielded = Append(@, ErrUpstream),
                          ![r].events = @ \o <<ContentEvent(ErrUpstream), DoneEvent>>,
                          ![r].chunk_count = @ + 1,
                          ![r].pc = "done"]
    /\ UNCHANGED <<cacheVars, storeVars, terminationVars>>

(***************************************************************************)
(* chat_service.py: the context methods, called with their three           *)
(* arguments.                                                              *)
(***************************************************************************)
\* The rows of a history as the prompt reads them: role and content.
HistoryRows == [role : {"user", "assistant"}, content : Frags]

\* The histories of at most MaxHistory rows.
Histories == UNION {[1..n -> HistoryRows] : n \in 0..MaxHistory}

\* The histories a caller passes: none, or what the store returns.
HistoriesFor(session_id) ==
    {<<>>} \cup get_session_messages(session_id, HISTORY_LIMIT)

\* stream_chat_with_context, lines 273-295: up to the first event awaited
\* from agent.run_stream. The check of line 90 cannot fail after the check
\* of line 273 within one step unless model_client is unset; then the
\* RuntimeError is caught at line 305.
stream_chat_with_context(r, session_id, message, history) ==
    /\ Arrives(r)
    /\ IF ~initialized
       THEN /\ req' = [req EXCEPT ![r] =
                         [NoRequest EXCEPT !.kind = "stream_service",
                                           !.session_id = session_id,
                                           !.message = message,
                                           !.history = history,
                                           !.raised = "RuntimeError",
                                           !.pc = "done"]]
            /\ UNCHANGED cacheVars
       ELSE IF model_client = None
       THEN /\ req' = [req EXCEPT ![r] =
                         [NoRequest EXCEPT !.kind = "stream_service",
                                           !.session_id = session_id,
                                           !.message = message,
                                           !.history = history,
                                           !.yielded = <<ErrUpstream>>,
                                           !.pc = "done"]]
            /\ UNCHANGED cacheVars
       ELSE /\ CanGetOrCreate(agents, session_id)
            /\ LET g == GetOrCreate(agents, session_id, agents_made)
               IN  /\ agents' = g.agents
                   /\ agents_made' = g.made
                   /\ req' = [req EXCEPT ![r] =
                                [NoRequest EXCEPT !.kind = "stream_service",
                                                  !.session_id = session_id,
                                                  !.message = message,
                                                  !.history = history,
                                                  !.agent = g.agent,
                                                  !.full_prompt = BuildPrompt(message, history),
                                                  !.upstream = "open",
                                                  !.pc = "streaming"]]
            /\ use_log' = Append(use_log, session_id)
            /\ UNCHANGED <<initialized, model_client, ret, lru_exact>>
    /\ UNCHANGED <<storeVars, terminationVars>>

\* Lines 298-301: the next event of the stream; a chunk of the agent is
\* counted and yielded, any other event is passed over.
stream_next(r) ==
    /\ req[r].kind = "stream_service"
    /\ req[r].pc = "streaming"
    /\ Len(req[r].produced) < MaxEvents
    /\ \E chunk \in StreamEvents(req[r].session_id) :
          IF IsAssistantChunk(chunk)
          THEN req' = [req EXCEPT ![r].produced = Append(@, chunk),
                                  ![r].chunk_count = @ + 1,
                                  ![r].yielded = Append(@, chunk.content)]
          ELSE req' = [req EXCEPT ![r].produced = Append(@, chunk)]
    /\ UNCHANGED <<cacheVars, storeVars, terminationVars>>

\* Line 303: the stream is exhausted and the generator ends.
stream_end(r) ==
    /\ req[r].kind = "stream_service"
    /\ req[r].pc = "streaming"
    /\ req' = [req EXCEPT ![r].upstream = "ended", ![r].pc = "done"]
    /\ UNCHANGED <<cacheVars, storeVars, terminationVars>>

\* Lines 305-308: the completion raises; the text of the error is yielded
\* like a fragment and the generator ends.
stream_raise(r) ==
    /\ req[r].kind = "stream_service"
    /\ req[r].pc = "streaming"
    /\ req' = [req EXCEPT ![r].upstream = "raised",
                          ![r].yielded = Append(@, ErrUpstream),
                          ![r].pc = "done"]
    /\ UNCHANGED <<cacheVars, storeVars, terminationVars>>

\* chat_with_context, lines 220-244: up to the await of agent.run.
chat_with_context(r, session_id, message, history) ==
    /\ Arrives(r)
    /\ IF ~initialized \/ model_client = None
       THEN /\ req' = [req EXCEPT ![r] =
                         [NoRequest EXCEPT !.kind = "chat_service",
                                           !.session_id = session_id,
                                           !.message = message,
                                           !.history = history,
                                           !.raised = "RuntimeError",
                                           !.pc = "done"]]
            /\ UNCHANGED cacheVars
       ELSE /\ CanGetOrCreate(agents, session_id)
            /\ LET g == GetOrCreate(agents, session_id, agents_made)
               IN  /\ agents' = g.agents
                   /\ agents_made' = g.made
                   /\ req' = [req EXCEPT ![r] =
                                [NoRequest EXCEPT !.kind = "chat_service",
                                                  !.session_id = session_id,
                                                  !.message = message,
                                                  !.history = history,
                                                  !.agent = g.agent,
                                                  !.full_prompt = BuildPrompt(message, history),
                                                  !.upstream = "open",
                                                  !.pc = "awaiting"]]
            /\ use_log' = Append(use_log, session_id)
            /\ UNCHANGED <<initialized, model_client, ret, lru_exact>>
    /\ UNCHANGED <<storeVars, terminationVars>>

\* Lines 241-249: agent.run returns and the reply is extracted.
chat_return(r) ==
    /\ req[r].kind = "chat_service"
    /\ req[r].pc = "awaiting"
    /\ \E response \in Responses :
          req' = [req EXCEPT ![r].upstream = "returned",
                             ![r].returned = extract_response(response),
                             ![r].pc = "done"]
    /\ UNCHANGED <<cacheVars, storeVars, terminationVars>>

\* Lines 251-253: agent.run raises; the error is logged and raised again.
chat_raise(r) ==
    /\ req[r].kind = "chat_service"
    /\ req[r].pc = "awaiting"
    /\ req' = [req EXCEPT ![r].upstream = "raised",
                          ![r].raised = "UpstreamError",
                          ![r].pc = "done"]
    /\ UNCHANGED <<cacheVars, storeVars, terminationVars>>

(***************************************************************************)
(* main.py: POST /api/chat, the endpoint without a session.                *)
(***************************************************************************)
ErrChatFailed == <<"chat failed: ", "upstream failure">>

\* chat, main.py lines 143-154, and ChatService.chat up to the await of its
\* run (chat_service.py lines 147-161): 503 without the service; no await
\* separates the handler's check from the service's, and the agent is a
\* temporary one named assistant_temp, held in a local variable.
chat(r, message) ==
    /\ Arrives(r)
    /\ IF ~initialized
       THEN req' = [req EXCEPT ![r] =
                      [NoRequest EXCEPT !.kind = "legacy_chat",
                                        !.message = message,
                                        !.response = [status |-> 503, body |-> ErrNotInitialized],
                                        !.pc = "done"]]
       ELSE IF model_client = None
       THEN req' = [req EXCEPT ![r] =
                      [NoRequest EXCEPT !.kind = "legacy_chat",
                                        !.message = message,
                                        !.raised = "RuntimeError",
                                        !.response = [status |-> 500, body |-> <<"chat failed: ">> \o ErrNotInitialized],
                                        !.pc = "done"]]
       ELSE req' = [req EXCEPT ![r] =
                      [NoRequest EXCEPT !.kind = "legacy_chat",
                                        !.message = message,
                                        !.upstream = "open",
                                        !.pc = "awaiting"]]
    /\ UNCHANGED <<cacheVars, storeVars, terminationVars>>

\* chat_service.py lines 161-167 and main.py lines 154-156: the run
\* returns and the extracted reply is the answer.
chat_reply(r) ==
    /\ req[r].kind = "legacy_chat"
    /\ req[r].pc = "awaiting"
    /\ \E response \in Responses :
          req' = [req EXCEPT ![r].upstream = "returned",
                             ![r].returned = extract_response(response),
                             ![r].response = [status |-> 200, body |-> extract_response(response)],
                             ![r].pc = "done"]
    /\ UNCHANGED <<cacheVars, storeVars, terminationVars>>

\* chat_service.py lines 169-171 and main.py lines 157-162: the run raises,
\* the service raises it again and the handler answers 500.
chat_fails(r) ==
    /\ req[r].kind = "legacy_chat"
    /\ req[r].pc = "awaiting"
    /\ req' = [req EXCEPT ![r].upstream = "raised",
                          ![r].raised = "UpstreamError",
                          ![r].response = [status |-> 500, body |-> ErrChatFailed],
                          ![r].pc = "done"]
    /\ UNCHANGED <<cacheVars, storeVars, terminationVars>>

(***************************************************************************)
(* chat_service.py: generate_title.                                        *)
(***************************************************************************)
\* Line 355: len(title) > 30, title[:30]
TITLE_LIMIT == 30
\* Line 368: len(first_message) > 20, first_message[:20]
FALLBACK_LIMIT == 20

\* "..."
Ellipsis == <<".", ".", ".">>

\* A text of n characters, none of them a blank or a quote.
Letters(n) == [i \in 1..n |-> "x"]

\* The characters str.strip() removes, among those of the model.
Whitespace == {" ", "\n"}

RECURSIVE lstrip(_)
lstrip(s) == IF s # <<>> /\ Head(s) \in Whitespace THEN lstrip(Tail(s)) ELSE s

\* str.strip()
strip(s) == Reverse(lstrip(Reverse(lstrip(s))))

\* str.replace(old, new) for a one-character old.
RECURSIVE replace(_, _, _)
replace(s, old, new) ==
    IF s = <<>> THEN <<>>
    ELSE (IF Head(s) = old THEN new ELSE <<Head(s)>>) \o replace(Tail(s), old, new)

\* Lines 349-360: the reply stripped, its quotes removed and its newlines
\* made blanks, stripped again, cut to 30 characters with "..." appended,
\* and the default title when nothing is left.
CleanTitle(text) ==
    LET stripped == strip(text)
        cleaned  == strip(replace(replace(replace(stripped, "\"", <<>>), "'", <<>>), "\n", <<" ">>))
        limited  == IF Len(cleaned) > TITLE_LIMIT
                    THEN Take(cleaned, TITLE_LIMIT) \o Ellipsis
                    ELSE cleaned
    IN  IF limited = <<>> THEN DefaultTitle ELSE limited

\* A fallback that returns the whole message.
FallbackTitle_whole(first_message) == first_message

\* Line 368: first_message[:20] + "..." if len(first_message) > 20 else
\* first_message
FallbackTitle(first_message) ==
    IF Len(first_message) > FALLBACK_LIMIT
    THEN Take(first_message, FALLBACK_LIMIT) \o Ellipsis
    ELSE first_message

\* The texts the title agent can reply with.
TitleTexts ==
    {<<>>,
     <<" ", "\"", "a", "\n", "b", "'", "\n">>,
     Letters(TITLE_LIMIT),
     Letters(TITLE_LIMIT + 1)}

\* What temp_agent.run can return: a TaskResult whose messages end with the
\* reply.
TitleResponses == {[messages |-> <<[content |-> t]>>] : t \in TitleTexts}

\* The first messages of users: ChatRequest.message has min_length=1.
FirstMessages == {UserText, Letters(FALLBACK_LIMIT), Letters(FALLBACK_LIMIT + 1)}

\* A generate_title that looks its agent up in the cache.
generate_title_cached(r, first_message) ==
    /\ Arrives(r)
    /\ IF ~initialized \/ model_client = None
       THEN /\ req' = [req EXCEPT ![r] =
                         [NoRequest EXCEPT !.kind = "title_service",
                                           !.message = first_message,
                                           !.raised = "RuntimeError",
                                           !.pc = "done"]]
            /\ UNCHANGED cacheVars
       ELSE /\ CanGetOrCreate(agents, 1)
            /\ LET g == GetOrCreate(agents, 1, agents_made)
               IN  /\ agents' = g.agents
                   /\ agents_made' = g.made
            /\ use_log' = Append(use_log, 1)
            /\ req' = [req EXCEPT ![r] =
                         [NoRequest EXCEPT !.kind = "title_service",
                                           !.message = first_message,
                                           !.upstream = "open",
                                           !.pc = "awaiting_title"]]
            /\ UNCHANGED <<initialized, model_client, ret, lru_exact>>
    /\ UNCHANGED <<storeVars, terminationVars>>

\* A generate_title without its check of the service.
generate_title_unchecked(r, first_message) ==
    /\ Arrives(r)
    /\ req' = [req EXCEPT ![r] =
                 [NoRequest EXCEPT !.kind = "title_service",
                                   !.message = first_message,
                                   !.upstream = "open",
                                   !.pc = "awaiting_title"]]
    /\ UNCHANGED <<cacheVars, storeVars, terminationVars>>

\* generate_title, lines 322-348: the check, then a temporary AssistantAgent
\* named title_generator, held in a local variable, and the await of its run.
generate_title(r, first_message) ==
    /\ Arrives(r)
    /\ IF ~initialized \/ model_client = None
       THEN req' = [req EXCEPT ![r] =
                      [NoRequest EXCEPT !.kind = "title_service",
                                        !.message = first_message,
                                        !.raised = "RuntimeError",
                                        !.pc = "done"]]
       ELSE req' = [req EXCEPT ![r] =
                      [NoRequest EXCEPT !.kind = "title_service",
                                        !.message = first_message,
                                        !.upstream = "open",
                                        !.pc = "awaiting_title"]]
    /\ UNCHANGED <<cacheVars, storeVars, terminationVars>>

\* Lines 348-363: the run returns and the cleaned title is returned.
generate_title_return(r) ==
    /\ req[r].kind = "title_service"
    /\ req[r].pc = "awaiting_title"
    /\ \E response \in TitleResponses :
          req' = [req EXCEPT ![r].upstream = "returned",
                             ![r].produced = response.messages,
                             ![r].returned = CleanTitle(extract_response(response)),
                             ![r].pc = "done"]
    /\ UNCHANGED <<cacheVars, storeVars, terminationVars>>

\* Lines 365-368: the run raises an Exception; it is logged and the
\* beginning of the first message is returned.
generate_title_raise(r) ==
    /\ req[r].kind = "title_service"
    /\ req[r].pc = "awaiting_title"
    /\ req' = [req EXCEPT ![r].upstream = "raised",
                          ![r].returned = FallbackTitle(req[r].message),
                          ![r].pc = "done"]
    /\ UNCHANGED <<cacheVars, storeVars, terminationVars>>

(***************************************************************************)
(* main.py: POST /api/sessions/{session_id}/generate-title and             *)
(* PUT /api/sessions/{session_id}/title.                                   *)
(***************************************************************************)
ErrNoUserMessage == <<"no user message in the session">>
ErrTitleFailed == <<"title generation failed: ", "service not initialized">>

\* DatabaseManager.get_first_user_message: SELECT ... WHERE session_id = :id
\* AND role = 'user' ORDER BY timestamp LIMIT 1; the Optional rows it can
\* return, one per row of the least timestamp.
get_first_user_message(session_id) ==
    LET users == {m \in RowsOf(session_id) : m.role = "user"}
    IN  IF users = {} THEN {NoRow}
        ELSE {<<m>> : m \in {u \in users : \A v \in users : u.timestamp <= v.timestamp}}

\* A handler that goes on without a first message, with an empty text.
generate_session_title_unchecked(r, session_id) ==
    /\ Arrives(r)
    /\ IF ~initialized
       THEN req' = [req EXCEPT ![r] =
                      [NoRequest EXCEPT !.kind = "title_endpoint",
                                        !.session_id = session_id,
                                        !.response = [status |-> 503, body |-> ErrNotInitialized],
                                        !.pc = "done"]]
       ELSE \E first_message \in get_first_user_message(session_id) :
               req' = [req EXCEPT ![r] =
                         [NoRequest EXCEPT !.kind = "title_endpoint",
                                           !.session_id = session_id,
                                           !.message = IF first_message = NoRow THEN <<>>
                                                       ELSE first_message[1].content,
                                           !.pc = "title_call"]]
    /\ UNCHANGED <<cacheVars, storeVars, terminationVars>>

\* generate_session_title, lines 490-507: 503 without the service; the first
\* user message is read, and 404 is the answer when there is none.
generate_session_title(r, session_id) ==
    /\ Arrives(r)
    /\ IF ~initialized
       THEN req' = [req EXCEPT ![r] =
                      [NoRequest EXCEPT !.kind = "title_endpoint",
                                        !.session_id = session_id,
                                        !.response = [status |-> 503, body |-> ErrNotInitialized],
                                        !.pc = "done"]]
       ELSE \E first_message \in get_first_user_message(session_id) :
               IF first_message = NoRow
               THEN req' = [req EXCEPT ![r] =
                              [NoRequest EXCEPT !.kind = "title_endpoint",
                                                !.session_id = session_id,
                                                !.response = [status |-> 404, body |-> ErrNoUserMessage],
                                                !.pc = "done"]]
               ELSE req' = [req EXCEPT ![r] =
                              [NoRequest EXCEPT !.kind = "title_endpoint",
                                                !.session_id = session_id,
                                                !.message = first_message[1].content,
                                                !.pc = "title_call"]]
    /\ UNCHANGED <<cacheVars, storeVars, terminationVars>>

\* Line 511 into chat_service.py 322-348: generate_title is entered after
\* the read; its RuntimeError is caught at line 518 and answered 500.
generate_session_title_call(r) ==
    /\ req[r].kind = "title_endpoint"
    /\ req[r].pc = "title_call"
    /\ IF ~initialized \/ model_client = None
       THEN req' = [req EXCEPT ![r].response = [status |-> 500, body |-> ErrTitleFailed],
                               ![r].pc = "done"]
       ELSE req' = [req EXCEPT ![r].upstream = "open", ![r].pc = "awaiting_title"]
    /\ UNCHANGED <<cacheVars, storeVars, terminationVars>>

\* Lines 511-516: generate_title returns the cleaned reply, the title is
\* written with update_session_title, whose result is not looked at, and
\* the title is the answer.
generate_session_title_return(r) ==
    /\ req[r].kind = "title_endpoint"
    /\ req[r].pc = "awaiting_title"
    /\ \E response \in TitleResponses :
          LET title == CleanTitle(extract_response(response))
          IN  /\ update_session_title(req[r].session_id, title)
              /\ req' = [req EXCEPT ![r].upstream = "returned",
                                    ![r].produced = response.messages,
                                    ![r].returned = title,
                                    ![r].response = [status |-> 200, body |-> title],
                                    ![r].pc = "done"]
    /\ UNCHANGED cacheVars

\* The same lines when the run of the title agent raises: generate_title
\* returns its fallback, which is written and answered like a title.
generate_session_title_fallback(r) ==
    /\ req[r].kind = "title_endpoint"
    /\ req[r].pc = "awaiting_title"
    /\ LET title == FallbackTitle(req[r].message)
       IN  /\ update_session_title(req[r].session_id, title)
           /\ req' = [req EXCEPT ![r].upstream = "raised",
                                 ![r].returned = title,
                                 ![r].response = [status |-> 200, body |-> title],
                                 ![r].pc = "done"]
    /\ UNCHANGED cacheVars

\* UpdateSessionTitle.title as a request gives it: empty, or a text.
NewTitles == {<<>>, <<"t">>}

ErrValidation == <<"validation error">>

\* UpdateSessionTitle: title has min_length=1 (models.py 176); a body that
\* fails the validation is answered 422 before the handler runs.
ValidTitle(title) == Len(title) >= 1

\* A handler that takes any body.
update_session_title_handler_unvalidated(r, session_id, title) ==
    /\ Arrives(r)
    /\ update_session_title(session_id, title)
    /\ req' = [req EXCEPT ![r] =
                 [NoRequest EXCEPT !.kind = "rename",
                                   !.session_id = session_id,
                                   !.message = title,
                                   !.response = IF session_id \in DOMAIN sessions
                                                THEN [status |-> 200, body |-> <<>>]
                                                ELSE [status |-> 404, body |-> ErrNoSession],
                                   !.pc = "done"]]
    /\ UNCHANGED cacheVars

\* PUT /api/sessions/{session_id}/title, lines 281-296: 404 when
\* update_session_title matched no row.
update_session_title_handler(r, session_id, title) ==
    /\ Arrives(r)
    /\ IF ~ValidTitle(title)
       THEN /\ req' = [req EXCEPT ![r] =
                         [NoRequest EXCEPT !.kind = "rename",
                                           !.session_id = session_id,
                                           !.message = title,
                                           !.response = [status |-> 422, body |-> ErrValidation],
                                           !.pc = "done"]]
            /\ UNCHANGED <<storeVars, terminationVars>>
       ELSE /\ update_session_title(session_id, title)
            /\ req' = [req EXCEPT ![r] =
                         [NoRequest EXCEPT !.kind = "rename",
                                           !.session_id = session_id,
                                           !.message = title,
                                           !.response = IF session_id \in DOMAIN sessions
                                                        THEN [status |-> 200, body |-> <<>>]
                                                        ELSE [status |-> 404, body |-> ErrNoSession],
                                           !.pc = "done"]]
    /\ UNCHANGED cacheVars

\* DatabaseManager.add_message called with a row of the given role.
add_message_call(session_id, role, content) ==
    /\ Len(messages) < MaxAppends
    /\ add_message(session_id, role, content, 0)
    /\ UNCHANGED <<cacheVars, req>>

(***************************************************************************)
(* db_operations.py: export_session_json, and main.py:                     *)
(* GET /api/sessions/{session_id}/export with format=json.                 *)
(***************************************************************************)
\* Session.messages as selectinload fills it (database.py 33-38): the rows
\* of the session ORDER BY timestamp. Rows of equal timestamp come in an
\* order the query does not fix; the operator is the set of lists it can be.
session_messages(session_id) ==
    {f \in Listings(RowsOf(session_id)) :
        \A i, j \in 1..Len(f) : i < j => f[i].timestamp <= f[j].timestamp}

\* json.dumps of the characters of a str, ensure_ascii=False: the quote,
\* the backslash and the newline are written as escapes.
RECURSIVE json_escape(_)
json_escape(text) ==
    IF text = <<>> THEN <<>>
    ELSE (CASE Head(text) = "\"" -> <<"\\", "\"">>
            [] Head(text) = "\\" -> <<"\\", "\\">>
            [] Head(text) = "\n" -> <<"\\", "n">>
            [] OTHER -> <<Head(text)>>)
         \o json_escape(Tail(text))

\* json.dumps of a str: the escaped characters between quotes.
json_string(text) == <<"\"">> \o json_escape(text) \o <<"\"">>

\* datetime.isoformat()
isoformat(dt) == <<ToString(dt)>>

\* Lines 192-208: json.dumps(export_data, ensure_ascii=False, indent=2),
\* the document with its members and its list in their order and every
\* string as json.dumps writes it.
json_dumps(session_id, session, rows) ==
    [id         |-> json_string(<<ToString(session_id)>>),
     title      |-> json_string(session.title),
     created_at |-> json_string(isoformat(session.created_at)),
     updated_at |-> json_string(isoformat(session.updated_at)),
     messages   |-> [i \in 1..Len(rows) |->
                       [id        |-> json_string(<<ToString(rows[i].id)>>),
                        role      |-> json_string(<<rows[i].role>>),
                        content   |-> json_string(rows[i].content),
                        timestamp |-> json_string(isoformat(rows[i].timestamp))]]]

\* DatabaseManager.export_session_json: None for an absent session, else
\* the document of the session and of session.messages; the Optional
\* documents it can return.
export_session_json(session_id) ==
    IF get_session(session_id) = NoRow THEN {NoRow}
    ELSE {<<json_dumps(session_id, sessions[session_id], rows)>> :
             rows \in session_messages(session_id)}

\* export_session with format=json, lines 316-341: 404 when there is no
\* content.
export_session(r, session_id) ==
    /\ Arrives(r)
    /\ \E content \in export_session_json(session_id) :
          req' = [req EXCEPT ![r] =
                    [NoRequest EXCEPT !.kind = "export",
                                      !.session_id = session_id,
                                      !.response = IF content = NoRow
                                                   THEN [status |-> 404, body |-> ErrNoSession]
                                                   ELSE [status |-> 200, body |-> content],
                                      !.pc = "done"]]
    /\ UNCHANGED <<cacheVars, storeVars, terminationVars>>

\* The texts of the messages of an exported session.
ExportTexts == {UserText, <<"\"", "a", "\\", "\n">>}

(***************************************************************************)
(* termination_condition.py: SourcePrefixTermination.                      *)
(***************************************************************************)
\* Messages of one batch passed to a call.
MaxBatch == 2

\* The prefixes a condition is constructed with; "" is a prefix of every
\* source.
Prefixes == {<<"a", "s">>, <<"a">>, <<>>}

\* The sources of messages: agent names.
Sources == {<<"a", "s", "1">>, <<"a">>, <<"u", "a", "s">>}

\* The messages of a batch: agent events and chat messages, which carry a
\* source, and an object that has no attribute source.
BatchMessages ==
    {[source |-> s, content |-> <<"m">>] : s \in Sources} \cup {[content |-> <<"m">>]}

Batches == UNION {[1..n -> BatchMessages] : n \in 0..MaxBatch}

\* Line 41: hasattr(message, "source") and
\* message.source.startswith(self._prefix)
Matches(message, prefix) ==
    /\ "source" \in DOMAIN message
    /\ StartsWith(message.source, prefix)

\* Lines 39-47: the first message of the batch that matches, as an Optional.
RECURSIVE FirstMatch(_, _)
FirstMatch(batch, prefix) ==
    IF batch = <<>> THEN <<>>
    ELSE IF Matches(Head(batch), prefix) THEN <<Head(batch)>>
    ELSE FirstMatch(Tail(batch), prefix)

\* Lines 43-46.
StopMessage(source, prefix) ==
    [type    |-> "StopMessage",
     content |-> <<"Terminated because source '">> \o source
                 \o <<"' starts with '">> \o prefix \o <<"'.">>,
     source  |-> <<"SourcePrefixTermination">>]

\* Lines 25-27: SourcePrefixTermination(prefix). The object is held as an
\* Optional: <<>> before it is constructed.
SourcePrefixTermination(prefix) ==
    /\ condition = <<>>
    /\ condition' = <<[prefix |-> prefix, terminated |-> FALSE]>>
    /\ called' = [op |-> "init", messages |-> <<>>, returned |-> <<>>, raised |-> None]
    /\ UNCHANGED <<cacheVars, storeVars, req>>

\* A call that looks at its batch whether or not the condition was reached.
call_unlatched(batch) ==
    /\ condition # <<>>
    /\ LET found == FirstMatch(batch, condition[1].prefix)
       IN  IF found # <<>>
           THEN /\ condition' = <<[condition[1] EXCEPT !.terminated = TRUE]>>
                /\ called' = [op |-> "call", messages |-> batch,
                              returned |-> <<StopMessage(found[1].source, condition[1].prefix)>>,
                              raised |-> None]
           ELSE /\ called' = [op |-> "call", messages |-> batch,
                              returned |-> <<>>, raised |-> None]
                /\ UNCHANGED condition
    /\ UNCHANGED <<cacheVars, storeVars, req>>

\* Lines 33-47: __call__(messages), the batch of messages its argument; what
\* it returns is an Optional, <<>> for None.
call(batch) ==
    /\ condition # <<>>
    /\ IF condition[1].terminated
       THEN /\ called' = [op |-> "call", messages |-> batch,
                          returned |-> <<>>, raised |-> "TerminatedException"]
            /\ UNCHANGED condition
       ELSE LET found == FirstMatch(batch, condition[1].prefix)
            IN  IF found # <<>>
                THEN /\ condition' = <<[condition[1] EXCEPT !.terminated = TRUE]>>
                     /\ called' = [op |-> "call", messages |-> batch,
                                   returned |-> <<StopMessage(found[1].source, condition[1].prefix)>>,
                                   raised |-> None]
                ELSE /\ called' = [op |-> "call", messages |-> batch,
                                   returned |-> <<>>, raised |-> None]
                     /\ UNCHANGED condition
    /\ UNCHANGED <<cacheVars, storeVars, req>>

\* Lines 49-50.
reset ==
    /\ condition # <<>>
    /\ condition' = <<[condition[1] EXCEPT !.terminated = FALSE]>>
    /\ called' = [op |-> "reset", messages |-> <<>>, returned |-> <<>>, raised |-> None]
    /\ UNCHANGED <<cacheVars, storeVars, req>>

(***************************************************************************)
(* Specifications.                                                         *)
(***************************************************************************)
\* ChatService.__init__
InitCache ==
    /\ initialized = FALSE
    /\ model_client = None
    /\ agents = <<>>
    /\ agents_made = 0
    /\ ret = [op |-> None, session_id |-> 0, raised |-> None, agent |-> 0]
    /\ use_log = <<>>
    /\ lru_exact = TRUE

\* The database as init_db leaves it, and no request yet.
InitStore ==
    /\ sessions = <<>>
    /\ sids_made = 0
    /\ messages = <<>>
    /\ now = 0

\* No termination condition has been constructed.
InitTermination ==
    /\ condition = <<>>
    /\ called = [op |-> None, messages |-> <<>>, returned |-> <<>>, raised |-> None]

Init ==
    /\ InitCache
    /\ InitStore
    /\ InitTermination
    /\ utc_offset = 0
    /\ req = [r \in Reqs |-> NoRequest]

\* The HTTP handlers of main.py, with the service's start and shutdown.
Next ==
    \/ initialize
    \/ cleanup
    \/ create_session_handler(<<>>)
    \/ \E s \in StoreIds : delete_session_handler(s)
    \/ \E r \in HttpReqs, s \in StoreIds : stream_chat_with_session(r, s, UserText)
    \/ \E r \in HttpReqs : event_generator_start(r)
    \/ \E r \in HttpReqs : event_generator_validate(r)
    \/ \E r \in HttpReqs : event_generator_history(r)
    \/ \E r \in HttpReqs : event_generator_save_user(r)
    \/ \E r \in HttpReqs : event_generator_call(r)
    \/ \E r \in HttpReqs : disconnect(r)
    \/ \E r \in HttpReqs, s \in StoreIds : chat_with_session(r, s, UserText)
    \/ \E r \in HttpReqs : chat_validate(r)
    \/ \E r \in HttpReqs : chat_history(r)
    \/ \E r \in HttpReqs : chat_save_user(r)
    \/ \E r \in HttpReqs : chat_call(r)

Spec == Init /\ [][Next]_vars

\* The context methods of ChatService called with their three arguments.
NextService ==
    \/ initialize
    \/ cleanup
    \/ \E r \in Calls, s \in StoreIds :
          \E h \in HistoriesFor(s) : stream_chat_with_context(r, s, UserText, h)
    \/ \E r \in Calls : stream_next(r)
    \/ \E r \in Calls : stream_end(r)
    \/ \E r \in Calls : stream_raise(r)
    \/ \E r \in Calls, s \in StoreIds :
          \E h \in HistoriesFor(s) : chat_with_context(r, s, UserText, h)
    \/ \E r \in Calls : chat_return(r)
    \/ \E r \in Calls : chat_raise(r)

ServiceSpec == Init /\ [][NextService]_vars

\* The two streaming endpoints of main.py.
NextStreaming ==
    \/ initialize
    \/ cleanup
    \/ create_session_handler(<<>>)
    \/ \E r \in HttpReqs, s \in StoreIds : stream_chat_with_session(r, s, UserText)
    \/ \E r \in HttpReqs : event_generator_start(r)
    \/ \E r \in HttpReqs : event_generator_validate(r)
    \/ \E r \in HttpReqs : event_generator_history(r)
    \/ \E r \in HttpReqs : event_generator_save_user(r)
    \/ \E r \in HttpReqs : event_generator_call(r)
    \/ \E r \in HttpReqs : stream_chat(r, UserText)
    \/ \E r \in HttpReqs : event_generator_begin(r)
    \/ \E r \in HttpReqs : event_generator_relay(r)
    \/ \E r \in HttpReqs : event_generator_finish(r)
    \/ \E r \in HttpReqs : event_generator_upstream_raises(r)

StreamingSpec == Init /\ [][NextStreaming]_vars

\* The session handlers of main.py beside ChatService.chat_with_context
\* called with its three arguments.
NextSessions ==
    \/ initialize
    \/ cleanup
    \/ create_session_handler(<<>>)
    \/ \E s \in StoreIds : delete_session_handler(s)
    \/ \E r \in Calls, s \in StoreIds :
          \E h \in HistoriesFor(s) : chat_with_context(r, s, UserText, h)
    \/ \E r \in Calls : chat_return(r)
    \/ \E r \in Calls : chat_raise(r)

SessionsSpec == Init /\ [][NextSessions]_vars

\* The store called directly, on a host in any zone.
InitStoreCalls ==
    /\ InitCache
    /\ InitStore
    /\ InitTermination
    /\ utc_offset \in Offsets
    /\ req = [r \in Reqs |-> NoRequest]

NextStore ==
    \/ NoPendingWrite /\ create_session(DefaultTitle) /\ UNCHANGED <<cacheVars, req>>
    \/ \E s \in IssuedIds :
          NoPendingWrite /\ update_session_title(s, <<"t">>) /\ UNCHANGED <<cacheVars, req>>
    \/ \E s \in IssuedIds :
          NoPendingWrite /\ delete_session(s) /\ UNCHANGED <<cacheVars, req>>
    \/ \E k \in Appends, s \in IssuedIds : add_message_flush(k, s, "user", UserText)
    \/ \E k \in Appends : add_message_commit(k)
    \/ \E k \in Appends : add_message_fail(k)

StoreSpec == InitStoreCalls /\ [][NextStore]_vars

\* The same calls on a host whose zone is UTC.
StoreUtcSpec == Init /\ [][NextStore]_vars

\* The chat endpoints used by one caller, each request after the one before
\* is over, while the service runs and no session is deleted.
NextSequential ==
    \/ initialize
    \/ create_session_handler(<<>>)
    \/ \E r \in SeqReqs, s \in StoreIds :
          Sequential(r) /\ stream_chat_with_session(r, s, UserText)
    \/ \E r \in SeqReqs : event_generator_start(r)
    \/ \E r \in SeqReqs : event_generator_validate(r)
    \/ \E r \in SeqReqs : event_generator_history(r)
    \/ \E r \in SeqReqs : event_generator_save_user(r)
    \/ \E r \in SeqReqs : event_generator_call(r)
    \/ \E r \in SeqReqs : disconnect(r)
    \/ \E r \in SeqReqs, s \in StoreIds :
          Sequential(r) /\ chat_with_session(r, s, UserText)
    \/ \E r \in SeqReqs : chat_validate(r)
    \/ \E r \in SeqReqs : chat_history(r)
    \/ \E r \in SeqReqs : chat_save_user(r)
    \/ \E r \in SeqReqs : chat_call(r)

SequentialSpec == Init /\ [][NextSequential]_vars

\* The context methods of ChatService called by tasks of one event loop:
\* a call may start while another awaits its completion.
NextConcurrent ==
    \/ initialize
    \/ \E r \in Concurrent, s \in StoreIds :
          stream_chat_with_context(r, s, UserText, <<>>)
    \/ \E r \in Concurrent : stream_next(r)
    \/ \E r \in Concurrent : stream_end(r)
    \/ \E r \in Concurrent : stream_raise(r)
    \/ \E r \in Concurrent, s \in StoreIds :
          chat_with_context(r, s, UserText, <<>>)
    \/ \E r \in Concurrent : chat_return(r)
    \/ \E r \in Concurrent : chat_raise(r)

ConcurrentSpec == Init /\ [][NextConcurrent]_vars

\* chat_with_context called by one more task than the cache holds agents,
\* for any session ids: a call may start while the others await agent.run.
NextCritical ==
    \/ initialize
    \/ \E r \in Callers, s \in SessionIds :
          chat_with_context(r, s, UserText, <<>>)
    \/ \E r \in Callers : chat_return(r)
    \/ \E r \in Callers : chat_raise(r)

CriticalSpec == Init /\ [][NextCritical]_vars

\* Every way into a completion, beside the service's start and shutdown.
NextLifecycle ==
    \/ initialize
    \/ cleanup
    \/ get_or_create_agent(1)
    \/ \E r \in HttpReqs, s \in StoreIds : stream_chat_with_session(r, s, UserText)
    \/ \E r \in HttpReqs : event_generator_start(r)
    \/ \E r \in HttpReqs, s \in StoreIds : chat_with_session(r, s, UserText)
    \/ \E r \in HttpReqs : stream_chat(r, UserText)
    \/ \E r \in HttpReqs : event_generator_begin(r)
    \/ \E r \in HttpReqs : chat(r, UserText)
    \/ \E r \in HttpReqs : chat_reply(r)
    \/ \E r \in HttpReqs : chat_fails(r)
    \/ \E r \in HttpReqs, s \in StoreIds : generate_session_title(r, s)
    \/ \E r \in HttpReqs, s \in StoreIds : chat_with_context(r, s, UserText, <<>>)
    \/ \E r \in HttpReqs, s \in StoreIds : stream_chat_with_context(r, s, UserText, <<>>)
    \/ \E r \in HttpReqs : generate_title(r, UserText)

LifecycleSpec == Init /\ [][NextLifecycle]_vars

\* The title endpoint beside the service's start and shutdown, the creation
\* of sessions and the rows of messages the chat handlers store.
NextTitle ==
    \/ initialize
    \/ cleanup
    \/ sids_made < MaxTitled /\ create_session_handler(<<>>)
    \/ \E s \in IssuedIds :
          Len(messages) < MaxTitled /\ add_message_call(s, "user", UserText)
    \/ \E s \in IssuedIds :
          Len(messages) < MaxTitled /\ add_message_call(s, "assistant", <<"a">>)
    \/ \E r \in HttpReqs, s \in StoreIds : generate_session_title(r, s)
    \/ \E r \in HttpReqs : generate_session_title_call(r)
    \/ \E r \in HttpReqs : generate_session_title_return(r)
    \/ \E r \in HttpReqs : generate_session_title_fallback(r)

TitleSpec == Init /\ [][NextTitle]_vars

\* The session handlers that create, rename and delete.
NextRename ==
    \/ \E title \in RequestTitles : create_session_handler(title)
    \/ \E r \in SeqReqs, s \in StoreIds, title \in NewTitles :
          update_session_title_handler(r, s, title)
    \/ \E s \in IssuedIds : delete_session_handler(s)

RenameSpec == Init /\ [][NextRename]_vars

\* Every handler that writes a title, beside the deletion of sessions; the
\* title endpoint is used by one caller.
NextTitleWriters ==
    \/ initialize
    \/ \E title \in RequestTitles :
          sids_made < MaxTitled /\ create_session_handler(title)
    \/ \E r \in HttpReqs, s \in IssuedIds, title \in NewTitles :
          update_session_title_handler(r, s, title)
    \/ \E s \in IssuedIds : delete_session_handler(s)
    \/ \E s \in IssuedIds :
          RowsOf(s) = {} /\ add_message_call(s, "user", UserText)
    \/ \E r \in HttpReqs, s \in IssuedIds :
          Sequential(r) /\ generate_session_title(r, s)
    \/ \E r \in HttpReqs : generate_session_title_call(r)
    \/ \E r \in HttpReqs : generate_session_title_return(r)
    \/ \E r \in HttpReqs : generate_session_title_fallback(r)

TitleWritersSpec == Init /\ [][NextTitleWriters]_vars

\* ChatService.generate_title called directly, beside the cache and the
\* service's start and shutdown.
NextTitleService ==
    \/ initialize
    \/ cleanup
    \/ get_or_create_agent(1)
    \/ \E r \in Calls, first_message \in FirstMessages : generate_title(r, first_message)
    \/ \E r \in Calls : generate_title_return(r)
    \/ \E r \in Calls : generate_title_raise(r)

TitleServiceSpec == Init /\ [][NextTitleService]_vars

\* The context methods called for one session with any history, their
\* completions succeeding.
NextPrompt ==
    \/ initialize
    \/ \E r \in Calls, h \in Histories : chat_with_context(r, 1, UserText, h)
    \/ \E r \in Calls : chat_return(r)
    \/ \E r \in Calls, h \in Histories : stream_chat_with_context(r, 1, UserText, h)
    \/ \E r \in Calls : stream_end(r)

PromptSpec == Init /\ [][NextPrompt]_vars

\* Sessions created and filled with messages, and exported as JSON.
NextExport ==
    \/ \E title \in RequestTitles : create_session_handler(title)
    \/ \E s \in IssuedIds, role \in {"user", "assistant"}, content \in ExportTexts :
          Len(messages) < MaxAppends /\ add_message_call(s, role, content)
    \/ \E s \in IssuedIds : delete_session_handler(s)
    \/ \E r \in HttpReqs, s \in StoreIds : export_session(r, s)

ExportSpec == Init /\ [][NextExport]_vars

\* The cache methods called beside a store that comes to hold a session
\* and a message; between two clears the cache is asked for one agent more
\* than it holds.
NextFrame ==
    \/ initialize
    \/ IssuedIds = {} /\ create_session_handler(<<>>)
    \/ \E s \in IssuedIds :
          messages = <<>> /\ add_message_call(s, "user", UserText)
    \/ \E s \in SessionIds :
          Len(use_log) <= max_agents /\ get_or_create_agent(s)
    \/ \E s \in SessionIds : remove_agent(s)
    \/ clear_all_agents

FrameSpec == Init /\ [][NextFrame]_vars


\* The two session chat endpoints used by several callers at once, while a
\* session is created and may be deleted: the steps of the requests
\* interleave at every await of the handlers.
NextInterleaved ==
    \/ initialize
    \/ IssuedIds = {} /\ create_session_handler(<<>>)
    \/ \E s \in IssuedIds : delete_session_handler(s)
    \/ \E r \in Concurrent, s \in IssuedIds : stream_chat_with_session(r, s, UserText)
    \/ \E r \in Concurrent : event_generator_start(r)
    \/ \E r \in Concurrent : event_generator_validate(r)
    \/ \E r \in Concurrent : event_generator_history(r)
    \/ \E r \in Concurrent : event_generator_save_user(r)
    \/ \E r \in Concurrent : event_generator_call(r)
    \/ \E r \in Concurrent, s \in IssuedIds : chat_with_session(r, s, UserText)
    \/ \E r \in Concurrent : chat_validate(r)
    \/ \E r \in Concurrent : chat_history(r)
    \/ \E r \in Concurrent : chat_save_user(r)
    \/ \E r \in Concurrent : chat_call(r)

InterleavedSpec == Init /\ [][NextInterleaved]_vars


\* A completion stream of ChatService.stream_chat_with_context, or a stream
\* request of the session endpoint, under way while the cache is asked for
\* agents of other sessions, or an agent is removed, or all are cleared.
NextEviction ==
    \/ initialize
    \/ IssuedIds = {} /\ create_session_handler(<<>>)
    \/ \E r \in Calls, s \in IssuedIds :
          stream_chat_with_context(r, s, UserText, <<>>)
    \/ \E r \in Calls : stream_next(r)
    \/ \E r \in Calls : stream_end(r)
    \/ \E s \in SessionIds : get_or_create_agent(s)
    \/ \E s \in SessionIds : remove_agent(s)
    \/ clear_all_agents
    \/ \E r \in HttpReqs, s \in IssuedIds : stream_chat_with_session(r, s, UserText)
    \/ \E r \in HttpReqs : event_generator_start(r)
    \/ \E r \in HttpReqs : event_generator_validate(r)
    \/ \E r \in HttpReqs : event_generator_history(r)
    \/ \E r \in HttpReqs : event_generator_save_user(r)
    \/ \E r \in HttpReqs : event_generator_call(r)

EvictionSpec == Init /\ [][NextEviction]_vars


\* A termination condition is constructed, called with batches and reset.
NextTermination ==
    \/ \E prefix \in Prefixes : SourcePrefixTermination(prefix)
    \/ \E batch \in Batches : call(batch)
    \/ reset

TerminationSpec == Init /\ [][NextTermination]_vars


\* The cache driven directly, one ChatService method per step.
NextCache ==
    \/ initialize
    \/ cleanup
    \/ \E s \in SessionIds : get_or_create_agent(s)
    \/ \E s \in SessionIds : remove_agent(s)
    \/ clear_all_agents

CacheSpec == Init /\ [][NextCache]_vars

(***************************************************************************)
(* Streaming and non-streaming chat.                                       *)
(***************************************************************************)
\* The rows request r appended with the given role, in insertion order.
MessagesBy(r, role) ==
    LET Mine(m) == m.by = r /\ m.role = role
    IN  SelectSeq(messages, Mine)

\* The text fragments among the events a completion stream produced.
RECURSIVE Fragments(_)
Fragments(produced) ==
    IF produced = <<>> THEN <<>>
    ELSE (IF Head(produced).type = "ModelClientStreamingChunkEvent"
          THEN <<Head(produced).content>> ELSE <<>>)
         \o Fragments(Tail(produced))

\* The number of error events among events.
ErrorEvents(events) == Cardinality({i \in 1..Len(events) : IsErrorEvent(events[i])})

\* C1: a streaming chat request on an existing session whose completion
\* stream yields f1..fk and ends without error leaves exactly one assistant
\* message of that request, its content f1 \o ... \o fk.
C1_StreamPersistsReply ==
    \A r \in Reqs :
        (/\ req[r].kind = "stream_endpoint"
         /\ req[r].pc = "done"
         /\ req[r].session # NoRow
         /\ req[r].upstream # "raised")
        => /\ Len(MessagesBy(r, "assistant")) = 1
           /\ MessagesBy(r, "assistant")[1].content = Concat(Fragments(req[r].produced))

C3_DisconnectStillCommits ==
    \A r \in Reqs :
        (/\ req[r].kind = "stream_endpoint"
         /\ req[r].pc = "cancelled"
         /\ MessagesBy(r, "user") # <<>>)
        => \E i \in 1..Len(messages) :
              /\ messages[i].by = r
              /\ messages[i].role = "assistant"
              /\ messages[i].content = req[r].accumulated_content

\* The generator of call r ended in its except branch: it is over, its
\* stream did not end and it raised nothing to its caller.
Caught(r) ==
    /\ req[r].pc = "done"
    /\ req[r].upstream # "ended"
    /\ req[r].raised = None

\* C4: at every moment the generator has yielded the fragments its
\* completion stream produced so far, one yield per fragment, in the order
\* of production, none left out or repeated; the only other yield is the
\* one error text after a failed completion.
C4_FragmentsYieldedInOrder ==
    \A r \in Reqs :
        req[r].kind = "stream_service" =>
            LET frags == Fragments(req[r].produced)
            IN  /\ req[r].chunk_count = Len(frags)
                /\ Len(req[r].yielded) >= Len(frags)
                /\ SubSeq(req[r].yielded, 1, Len(frags)) = frags
                /\ Len(req[r].yielded) = Len(frags) + (IF Caught(r) THEN 1 ELSE 0)

\* A stream that delivered b, then the agent's whole message, then nothing
\* more: b alone was yielded.
C4_Witness ==
    \E r \in Reqs :
        /\ req[r].kind = "stream_service"
        /\ req[r].pc = "done"
        /\ req[r].upstream = "ended"
        /\ Len(req[r].produced) = 2
        /\ req[r].yielded = << <<"b">> >>

\* C8: in non-streaming chat the user message is in the store when the
\* completion call is made; an assistant message of the request is in the
\* store only after the completion returned a response; and when the call
\* fails the request is answered with an error, its user message is in the
\* store and no assistant message of it is.
C8_UserFirstAssistantAfterReply ==
    \A r \in Reqs :
        req[r].kind = "chat_endpoint" =>
            /\ (req[r].pc = "call" \/ req[r].raised # None)
                  => /\ Len(MessagesBy(r, "user")) = 1
                     /\ MessagesBy(r, "user")[1].content = req[r].message
            /\ MessagesBy(r, "assistant") # <<>> => req[r].upstream = "returned"
            /\ req[r].raised # None
                  => /\ req[r].pc = "done"
                     /\ req[r].response.status = 500
                     /\ MessagesBy(r, "assistant") = <<>>

\* A chat request that was answered 500 after its completion call failed,
\* with its user message stored.
C8_Witness ==
    \E r \in Reqs :
        /\ req[r].kind = "chat_endpoint"
        /\ req[r].pc = "done"
        /\ req[r].raised = "TypeError"
        /\ req[r].response.status = 500
        /\ Len(MessagesBy(r, "user")) = 1

\* C9: a non-streaming chat request on an existing session, the service
\* initialized and the completion not failing, obtains the session's agent
\* from the cache, appends exactly the user message and then the assistant
\* message, and answers with the reply.
C9_ChatAppendsTwoAndReturns ==
    \A r \in Reqs :
        (/\ req[r].kind = "chat_endpoint"
         /\ req[r].pc = "done"
         /\ req[r].session # NoRow
         /\ req[r].upstream # "raised")
        => /\ req[r].agent # 0
           /\ Len(MessagesBy(r, "user")) = 1
           /\ Len(MessagesBy(r, "assistant")) = 1
           /\ MessagesBy(r, "user")[1].id < MessagesBy(r, "assistant")[1].id
           /\ req[r].response = [status |-> 200, body |-> MessagesBy(r, "assistant")[1].content]

\* C10: a streaming chat request whose session id is not in the store ends
\* after one error event, with no error raised to the transport, no message
\* of the request stored and no agent obtained or resident for that id.
C10_MissingSessionOneError ==
    \A r \in Reqs :
        (/\ req[r].kind = "stream_endpoint"
         /\ req[r].response.status = 200
         /\ req[r].pc = "done"
         /\ req[r].session = NoRow)
        => /\ Len(req[r].events) = 1
           /\ IsErrorEvent(req[r].events[1])
           /\ req[r].raised = None
           /\ MessagesBy(r, "user") = <<>>
           /\ MessagesBy(r, "assistant") = <<>>
           /\ req[r].agent = 0
           /\ ~InAgents(agents, req[r].session_id)

\* A streaming request that ended on the missing-session event while the
\* service was initialized.
C10_Witness ==
    \E r \in Reqs :
        /\ req[r].kind = "stream_endpoint"
        /\ req[r].pc = "done"
        /\ initialized
        /\ req[r].events = <<ErrorEvent(ErrNoSession)>>

\* The events are content events closed by the end marker.
EndsWithMarker(events) ==
    /\ events # <<>>
    /\ IsDoneEvent(Last(events))
    /\ \A i \in 1..(Len(events) - 1) : IsContentEvent(events[i])

\* The events are content events closed by one error event.
EndsWithError(events) ==
    /\ events # <<>>
    /\ IsErrorEvent(Last(events))
    /\ \A i \in 1..(Len(events) - 1) : IsContentEvent(events[i])

\* C11: a finished streaming response is its content events followed either
\* by the one end marker or by the one error event; it ends with the marker
\* when the completion stream ended, and with the error event, no marker
\* after it, when the completion raised.
C11_StreamEndsOneWay ==
    \A r \in Reqs :
        (/\ req[r].kind \in {"stream_endpoint", "legacy_stream"}
         /\ req[r].pc = "done"
         /\ req[r].response.status = 200)
        => /\ EndsWithMarker(req[r].events) \/ EndsWithError(req[r].events)
           /\ req[r].upstream = "ended" => EndsWithMarker(req[r].events)
           /\ (req[r].upstream = "raised" \/ req[r].raised # None)
                 => EndsWithError(req[r].events)

(***************************************************************************)
(* The Conversation Store.                                                 *)
(***************************************************************************)
\* C12: a step that removes session s from sessions removes every message
\* of s from messages in the same step and leaves the messages of the other
\* sessions as they were; afterwards get_session(s) finds nothing.
C12_DeleteRemovesMessages ==
    [][\A s \in StoreIds :
          (s \in DOMAIN sessions /\ s \notin DOMAIN sessions')
          => /\ \A i \in 1..Len(messages') : messages'[i].session_id # s
             /\ LET Others(m) == m.session_id # s
                IN  SelectSeq(messages', Others) = SelectSeq(messages, Others)
             /\ get_session(s)' = NoRow]_vars

\* C13: a step that removes session s from sessions leaves no agent for s
\* resident in the cache.
C13_DeleteRemovesAgent ==
    [][\A s \in StoreIds :
          (s \in DOMAIN sessions /\ s \notin DOMAIN sessions')
          => ~InAgents(agents', s)]_vars

\* Call k of add_message has flushed and ends in this step.
Concludes(k) ==
    /\ req[k].kind = "add_message"
    /\ req[k].pc = "flushed"
    /\ req'[k].pc = "done"

C15_AppendNeedsSession ==
    [][\A i \in (Len(messages) + 1)..Len(messages') :
          messages'[i].session_id \in DOMAIN sessions]_vars

\* C16: no step lowers the updated_at of a session.
C16_UpdatedAtMonotone ==
    [][\A s \in DOMAIN sessions \cap DOMAIN sessions' :
          sessions'[s].updated_at >= sessions[s].updated_at]_vars

\* C17: when an add_message on an existing session commits, the session's
\* updated_at is the timestamp of the row it appended.
C17_UpdatedAtIsLastTimestamp ==
    [][\A k \in Reqs :
          (/\ Concludes(k)
           /\ req'[k].raised = None
           /\ req[k].session_id \in DOMAIN sessions)
          => sessions'[req[k].session_id].updated_at = Last(messages').timestamp]_vars

\* The n most recently appended rows of a session.
MostRecentRows(session_id, n) ==
    {m \in RowsOf(session_id) :
        Cardinality({o \in RowsOf(session_id) : o.id > m.id}) < n}

\* C18: every list get_session_messages(session_id, limit) can return has
\* at most limit rows, holds exactly the limit most recently appended rows
\* of the session, is in non-decreasing order of timestamp, and ends with
\* the most recently appended row.
C18_RecentMessages ==
    \A s \in IssuedIds, limit \in Limits :
        \A l \in get_session_messages(s, limit) :
            /\ Len(l) <= limit
            /\ Range(l) = MostRecentRows(s, limit)
            /\ \A i, j \in 1..Len(l) : i < j => l[i].timestamp <= l[j].timestamp
            /\ l # <<>> => \A m \in RowsOf(s) : m.id <= Last(l).id

\* Request r is a session chat request that has read its history.
HasReadHistory(r) ==
    /\ req[r].kind \in {"chat_endpoint", "stream_endpoint"}
    /\ req[r].session # NoRow
    /\ req[r].pc \in {"save_user", "call", "done"}

InFlight(r) ==
    /\ req[r].kind \in {"stream_service", "chat_service"}
    /\ req[r].pc \in {"streaming", "awaiting"}

\* C20: no two calls for the same session id await a completion on the
\* session's agent at the same time.
C20_OneCompletionPerSession ==
    \A r1, r2 \in Reqs :
        (r1 # r2 /\ InFlight(r1) /\ InFlight(r2))
        => ~(req[r1].session_id = req[r2].session_id /\ req[r1].agent = req[r2].agent)

(***************************************************************************)
(* The Session-Agent Cache.                                                *)
(***************************************************************************)
\* C5: in every reachable state the number of agents resident in the cache
\* is at most the capacity max_agents.
C5_CacheBounded == Len(agents) <= max_agents

\* The cache is full after more distinct ids than the capacity were used and
\* none was removed: an eviction has happened.
C5_Witness ==
    /\ Len(agents) = max_agents
    /\ lru_exact
    /\ Cardinality(Range(use_log)) > max_agents

\* The position of the last use of session_id in log.
LastUse(log, session_id) ==
    CHOOSE i \in 1..Len(log) :
        /\ log[i] = session_id
        /\ \A j \in (i + 1)..Len(log) : log[j] # session_id

\* The distinct ids used in log after the last use of session_id.
UsedAfter(log, session_id) ==
    {log[j] : j \in (LastUse(log, session_id) + 1)..Len(log)}

\* The ids among the n most recently used of log.
MostRecentlyUsed(log, n) ==
    {s \in Range(log) : Cardinality(UsedAfter(log, s)) < n}

\* C6: after any sequence of _get_or_create_agent calls on an empty cache,
\* the resident ids are exactly the min(max_agents, number of distinct ids
\* used) most recently used ones, a hit counting as a use, and the cache
\* holds them from least to most recently used.
C6_ResidentAreMostRecent ==
    lru_exact =>
        /\ Range(Keys(agents)) = MostRecentlyUsed(use_log, max_agents)
        /\ Len(agents) = Min(max_agents, Cardinality(Range(use_log)))
        /\ \A i, j \in 1..Len(agents) :
              i < j => LastUse(use_log, agents[i].session_id)
                         < LastUse(use_log, agents[j].session_id)

\* One more distinct id than the capacity was used, with a hit among the
\* calls, and the cache is full.
C6_Witness ==
    /\ lru_exact
    /\ Cardinality(Range(use_log)) = max_agents + 1
    /\ Len(use_log) > max_agents + 1
    /\ Len(agents) = max_agents

\* The step is a successful direct call of _get_or_create_agent.
IsGetOrCreateCall == Len(use_log') = Len(use_log) + 1

\* C7: _get_or_create_agent on a resident session id returns the agent that
\* was inserted for it, constructs none, evicts none, keeps every entry and
\* the relative order of the others, and makes the id the most recently used.
C7_HitReturnsSameAgent ==
    [][(IsGetOrCreateCall /\ InAgents(agents, Last(use_log'))) =>
        LET s == Last(use_log')
        IN  /\ ret'.op = "get_or_create" /\ ret'.session_id = s
            /\ ret'.raised = None
            /\ ret'.agent = AgentOf(agents, s)
            /\ agents_made' = agents_made
            /\ Range(agents') = Range(agents)
            /\ Len(agents') = Len(agents)
            /\ Pop(agents', s) = Pop(agents, s)
            /\ Last(agents') = [session_id |-> s, agent |-> AgentOf(agents, s)]]_vars

\* The last cache call was a hit on an agent that is not the newest one, and
\* the entry it returned is now the most recently used.
C7_Witness ==
    /\ ret.op = "get_or_create"
    /\ ret.raised = None
    /\ ret.agent < agents_made
    /\ agents # <<>>
    /\ Last(agents) = [session_id |-> ret.session_id, agent |-> ret.agent]
    /\ Len(agents) = max_agents

\* The calls awaiting their completion.
Awaiting == {r \in Reqs : req[r].pc = "awaiting"}

\* C21: with calls of several tasks interleaved, the lookup, insertion and
\* eviction of one call are a single step: a step in which no call enters
\* the cache leaves it as it is, and a step in which a call enters for
\* session s leaves distinct keys, at most max_agents of them, the ids most
\* recently used, with s last.
C21_LookupInsertEvictIsOneStep ==
    [][/\ (use_log' = use_log) => (agents' = agents /\ agents_made' = agents_made)
       /\ (use_log' # use_log) =>
             /\ Len(agents') <= max_agents
             /\ Cardinality(Range(Keys(agents'))) = Len(agents')
             /\ Range(Keys(agents')) = MostRecentlyUsed(use_log', max_agents)
             /\ Last(agents').session_id = Last(use_log')
             /\ agents_made' - agents_made
                  = (IF InAgents(agents, Last(use_log')) THEN 0 ELSE 1)]_vars

\* Two calls for different sessions await their completions after a third
\* id was used, the cache is full and an entry has been evicted.
C21_Witness ==
    /\ \E r1, r2 \in Awaiting : req[r1].session_id # req[r2].session_id
    /\ Cardinality(Range(use_log)) > max_agents
    /\ Len(agents) = max_agents

\* The request was turned away for want of the service: it is over with a
\* RuntimeError, a 503 or the error event of the generators, and it has
\* neither an agent nor a completion.
Refused(q) ==
    /\ q.pc = "done"
    /\ q.upstream = None
    /\ q.agent = 0
    /\ \/ q.raised = "RuntimeError"
       \/ q.response = [status |-> 503, body |-> ErrNotInitialized]
       \/ q.events # <<>> /\ Last(q.events) = ErrorEvent(ErrNotInitialized)

\* C22: while the service is not initialized, every chat operation that
\* starts is refused with the not-initialized error, no agent is created
\* and no completion is begun; and whenever the service is not initialized,
\* after cleanup in particular, the cache is empty.
C22_UninitializedRefuses ==
    [][/\ (~initialized /\ ~initialized') =>
             /\ agents' = agents
             /\ agents_made' = agents_made
             /\ \A r \in Reqs :
                   /\ req[r].upstream = None => req'[r].upstream = None
                   /\ (req[r].pc \in {"idle", "start"} /\ req'[r] # req[r])
                         => Refused(req'[r])
             /\ ret' # ret => ret'.raised = "RuntimeError"
       /\ ~initialized' => agents' = <<>>]_vars

\* After an agent was made the service was cleaned up, and a call of
\* chat_with_context that came then was refused.
C22_Witness ==
    /\ ~initialized
    /\ agents_made > 0
    /\ agents = <<>>
    /\ \E r \in Reqs : req[r].kind = "chat_service" /\ Refused(req[r])

(***************************************************************************)
(* Title generation and the titles of sessions.                            *)
(***************************************************************************)
\* The direct calls of generate_title that are over.
TitleCalls == {r \in Reqs : req[r].kind = "title_service" /\ req[r].pc = "done"}

\* C23: when the run of the title agent fails, generate_title raises
\* nothing and returns the first 20 characters of the first message with
\* "..." after them if the message is longer than 20 characters, and the
\* message unchanged otherwise.
C23_FallbackOnFailure ==
    \A r \in TitleCalls :
        req[r].upstream = "raised" =>
            /\ req[r].raised = None
            /\ Len(req[r].message) > FALLBACK_LIMIT =>
                  req[r].returned
                    = SubSeq(req[r].message, 1, FALLBACK_LIMIT) \o <<".", ".", ".">>
            /\ Len(req[r].message) <= FALLBACK_LIMIT =>
                  req[r].returned = req[r].message

\* The run failed for a first message of more than 20 characters.
C23_Witness ==
    \E r \in TitleCalls :
        /\ req[r].upstream = "raised"
        /\ Len(req[r].message) > FALLBACK_LIMIT
        /\ Len(req[r].returned) = FALLBACK_LIMIT + 3

\* The requests that generate a title.
IsTitleRequest(q) == q.kind \in {"title_service", "title_endpoint"}

\* C24: no step of a title generation, its start, its return or its
\* failure, changes the cache: the resident agents, their order and the
\* number of agents made are as before.
C24_TitleLeavesCache ==
    [][\A r \in Reqs :
          (req'[r] # req[r] /\ IsTitleRequest(req'[r])) =>
              /\ agents' = agents
              /\ agents_made' = agents_made
              /\ use_log' = use_log]_vars

\* A title was generated while the cache held an agent.
C24_Witness ==
    /\ agents # <<>>
    /\ \E r \in TitleCalls : req[r].upstream = "returned"

\* The placeholder of the specification.
Untitled == <<"U", "n", "t", "i", "t", "l", "e", "d">>

\* text without its quotes, its newlines and its blanks.
Remains(text) ==
    LET Kept(ch) == ch \notin {"\"", "'", "\n", " "}
    IN  SelectSeq(text, Kept)

\* C25: when the run succeeds the returned title has no quote and no
\* newline, is cut to the limit with "..." appended when the cleaned reply
\* is longer, and is the placeholder "Untitled" when nothing remains of
\* the reply.
C25_CleanedTitle ==
    \A r \in TitleCalls :
        req[r].upstream = "returned" =>
            LET raw == Last(req[r].produced).content
            IN  /\ \A i \in 1..Len(req[r].returned) :
                      req[r].returned[i] \notin {"\"", "'", "\n"}
                /\ Len(req[r].returned) <= TITLE_LIMIT + 3
                /\ Len(Remains(raw)) > TITLE_LIMIT =>
                      /\ Len(req[r].returned) = TITLE_LIMIT + 3
                      /\ SubSeq(req[r].returned, TITLE_LIMIT + 1, TITLE_LIMIT + 3)
                           = <<".", ".", ".">>
                /\ Remains(raw) = <<>> => req[r].returned = Untitled

\* The rows of user messages of one session.
UserRows(session_id) == {m \in RowsOf(session_id) : m.role = "user"}

\* C26: a title request that arrives at a running service for a session
\* with no user message is answered with the no-user-message error at
\* once: no completion is begun and no session's title or updated_at
\* changes.
C26_NoUserMessageNoTitle ==
    [][\A r \in Reqs :
          (/\ req[r].pc = "idle"
           /\ req'[r].kind = "title_endpoint"
           /\ initialized
           /\ UserRows(req'[r].session_id) = {})
          => /\ req'[r].pc = "done"
             /\ req'[r].response = [status |-> 404, body |-> ErrNoUserMessage]
             /\ req'[r].upstream = None
             /\ req'[r].returned = <<>>
             /\ sessions' = sessions]_vars

\* The title request of an existing session whose only message is the
\* assistant's was answered 404.
C26_Witness ==
    \E r \in Reqs :
        /\ req[r].kind = "title_endpoint"
        /\ req[r].response.status = 404
        /\ req[r].session_id \in DOMAIN sessions
        /\ RowsOf(req[r].session_id) # {}
        /\ UserRows(req[r].session_id) = {}

\* C27: in every reachable state each stored session has a non-empty
\* title, whatever the order of creations (with a title, without one, with
\* an empty one), renames and title generations.
C27_TitleNeverEmpty ==
    \A s \in DOMAIN sessions : Len(sessions[s].title) >= 1

\* A generated title was written to a session.
C27_Witness ==
    \E r \in Reqs :
        /\ req[r].kind = "title_endpoint"
        /\ req[r].response.status = 200
        /\ req[r].session_id \in DOMAIN sessions
        /\ sessions[req[r].session_id].title = req[r].returned

\* The requests to rename that are over.
Renames == {r \in Reqs : req[r].kind = "rename"}

FirstAt(text, piece) ==
    LET starts == {i \in 1..(Len(text) - Len(piece) + 1) :
                      SubSeq(text, i, i + Len(piece) - 1) = piece}
    IN  IF starts = {} THEN 0
        ELSE CHOOSE i \in starts : \A j \in starts : i <= j

\* text holds the pieces one after another, in their order.
RECURSIVE ContainsInOrder(_, _)
ContainsInOrder(text, pieces) ==
    IF pieces = <<>> THEN TRUE
    ELSE LET i == FirstAt(text, Head(pieces))
         IN  /\ i > 0
             /\ ContainsInOrder(SubSeq(text, i + Len(Head(pieces)), Len(text)),
                                Tail(pieces))

\* Each row of the history under its role, then the user's text.
Labelled(history, message) ==
    [i \in 1..Len(history) |-> <<history[i].role, ": ">> \o history[i].content]
        \o <<message>>

\* The calls that built a prompt.
Prompted == {r \in Reqs : req[r].kind \in {"chat_service", "stream_service"} /\ req[r].agent # 0}

\* C29: the prompt sent for a call holds the rows of the history in their
\* order, each under its role, and after them the user's text; with an
\* empty history the prompt is the user's text and nothing else.
C29_PromptInOrder ==
    \A r \in Prompted :
        /\ req[r].history = <<>> => req[r].full_prompt = req[r].message
        /\ req[r].history # <<>> =>
              ContainsInOrder(req[r].full_prompt, Labelled(req[r].history, req[r].message))

\* A call with a user's row and then an assistant's row of another text.
C29_Witness ==
    \E r \in Prompted :
        /\ Len(req[r].history) = 2
        /\ req[r].history[1].role = "user"
        /\ req[r].history[2].role = "assistant"
        /\ req[r].history[1].content # req[r].history[2].content

(***************************************************************************)
(* Export.                                                                 *)
(***************************************************************************)
\* The characters of a JSON string's body, its escapes undone.
RECURSIVE json_unescape(_)
json_unescape(s) ==
    IF s = <<>> THEN <<>>
    ELSE IF Head(s) = "\\" /\ Len(s) >= 2
    THEN <<(IF s[2] = "n" THEN "\n" ELSE s[2])>> \o json_unescape(Tail(Tail(s)))
    ELSE <<Head(s)>> \o json_unescape(Tail(s))

\* The str a reader parses from a JSON string.
ParseString(s) == json_unescape(SubSeq(s, 2, Len(s) - 1))

\* What a reader parses from an exported document: the title, and the role
\* and content of each message, in the order of the document.
Parse(document) ==
    [title    |-> ParseString(document.title),
     messages |-> [i \in 1..Len(document.messages) |->
                     [role    |-> ParseString(document.messages[i].role)[1],
                      content |-> ParseString(document.messages[i].content)]]]

\* The role and content of each row of a list, in its order.
RoleContent(rows) ==
    [i \in 1..Len(rows) |-> [role |-> rows[i].role, content |-> rows[i].content]]

\* C30: an export of an absent session is answered not-found; the export of
\* an existing session parses to the session's title and to the roles and
\* contents, in order, of the list get_session_messages returns for the
\* session with a limit that leaves no row out.
C30_ExportRoundTrip ==
    [][\A r \in Reqs :
          (req[r].pc = "idle" /\ req'[r].kind = "export") =>
              LET s == req'[r].session_id
              IN  /\ s \notin DOMAIN sessions => req'[r].response.status = 404
                  /\ s \in DOMAIN sessions =>
                        /\ req'[r].response.status = 200
                        /\ Parse(req'[r].response.body[1]).title = sessions[s].title
                        /\ \A l \in get_session_messages(s, Len(messages)) :
                              Parse(req'[r].response.body[1]).messages = RoleContent(l)]_vars


(***************************************************************************)
(* Agents and the sessions they belong to.                                 *)
(***************************************************************************)
\* The calls that were handed an agent by _get_or_create_agent.
Holders == {r \in Reqs : req[r].agent # 0}

\* C31: an agent belongs to one session id and is never shared: two resident
\* session ids have two different agents, every agent a call was handed is
\* the agent of that call's session id only (two calls holding the same agent
\* name the same session, and a resident agent held by a call is resident
\* under that call's session id).
C31_AgentOwnedByOneSession ==
    /\ \A i, j \in 1..Len(agents) :
          i # j => /\ agents[i].session_id # agents[j].session_id
                   /\ agents[i].agent # agents[j].agent
    /\ \A r, q \in Holders :
          req[r].agent = req[q].agent => req[r].session_id = req[q].session_id
    /\ \A r \in Holders : \A i \in 1..Len(agents) :
          agents[i].agent = req[r].agent => agents[i].session_id = req[r].session_id

\* Two calls of one session share its agent, a call of another session
\* holds another agent, and a third session's agent is resident with it.
C31_Witness ==
    /\ Len(agents) = max_agents
    /\ \E r, q \in Holders :
          /\ r # q
          /\ req[r].session_id = req[q].session_id
          /\ req[r].agent = req[q].agent
    /\ \E r, q \in Holders :
          /\ req[r].session_id # req[q].session_id
          /\ req[r].agent # req[q].agent


\* The entry of one id stands before the entry of another in the mapping.
Before(od, a, b) ==
    \E i, j \in 1..Len(od) : i < j /\ od[i].session_id = a /\ od[j].session_id = b

Occurrences(text, token) == Cardinality({i \in 1..Len(text) : text[i] = token})

RowsWithRole(session_id, role) == {m \in RowsOf(session_id) : m.role = role}

\* C34: with chat and stream requests of several callers interleaved, every
\* session has at most as many assistant messages as user messages, because
\* every request has stored its user message before it stores an assistant
\* message, of which it stores at most one.
C34_AssistantsNeverOutnumberUsers ==
    /\ \A s \in SessionIds :
          Cardinality(RowsWithRole(s, "assistant")) <= Cardinality(RowsWithRole(s, "user"))
    /\ \A r \in Reqs :
          /\ Len(MessagesBy(r, "assistant")) <= 1
          /\ Len(MessagesBy(r, "assistant")) <= Len(MessagesBy(r, "user"))
          /\ \A i, j \in 1..Len(messages) :
                (messages[i].by = r /\ messages[j].by = r
                 /\ messages[i].role = "user" /\ messages[j].role = "assistant") => i < j

\* A chat request and a stream request on one session ran at the same
\* time: each read its history before the other stored its message, and
\* both have stored their user messages and are over.
C34_Witness ==
    \E r, q \in Reqs :
        /\ req[r].kind = "chat_endpoint" /\ req[q].kind = "stream_endpoint"
        /\ req[r].session_id = req[q].session_id
        /\ req[r].pc = "done" /\ req[q].pc = "done"
        /\ req[r].history = <<>> /\ req[q].history = <<>>
        /\ Len(MessagesBy(r, "user")) = 1 /\ Len(MessagesBy(q, "user")) = 1


\* C35: every message refers to a session that exists, also when a session
\* is deleted while a request for it is under way and the request then
\* stores a message.
C35_MessagesReferToSessions ==
    \A m \in Range(messages) : m.session_id \in DOMAIN sessions


(***************************************************************************)
(* Streams under way while the cache changes.                              *)
(***************************************************************************)
\* The completion streams that are under way.
Streaming == {r \in Reqs : req[r].kind = "stream_service" /\ req[r].pc = "streaming"}

\* A step that changes the mapping leaves every stream under way as it is:
\* the stream is not ended and what it has yielded is not touched.
StreamsUntouched ==
    (agents' # agents) =>
        \A r \in Streaming : req'[r] = req[r]

\* A stream goes on whether or not its agent is resident: what it has
\* yielded is the fragments its completion produced so far, in order, and
\* it ends only by the end of its completion.
StreamsGoOn ==
    \A r \in Reqs :
        (req'[r].kind = "stream_service" /\ req'[r].upstream # None) =>
            /\ req'[r].yielded = Fragments(req'[r].produced)
            /\ (r \in Streaming /\ req'[r].pc = "done") => req'[r].upstream = "ended"

\* An agent constructed is a new one: no call holds it and it was never
\* resident; and a session that is not resident gets an agent constructed.
NewAgentIsNew ==
    /\ (agents_made' # agents_made) =>
          /\ agents_made' = agents_made + 1
          /\ \A r \in Reqs : req[r].agent # agents_made'
          /\ \A i \in 1..Len(agents) : agents[i].agent # agents_made'
    /\ (use_log' # use_log /\ use_log' # <<>>) =>
          /\ InAgents(agents', Last(use_log'))
          /\ ~InAgents(agents, Last(use_log')) =>
                AgentOf(agents', Last(use_log')) = agents_made + 1

\* A stream request of the session endpoint that ends after its session was
\* found has stored exactly one assistant message.
StreamRequestCommitsOnce ==
    \A r \in Reqs :
        (/\ req'[r].kind = "stream_endpoint"
         /\ req[r].pc # "done" /\ req'[r].pc = "done"
         /\ req'[r].session # NoRow)
        => Cardinality({i \in 1..Len(messages') :
                          messages'[i].by = r /\ messages'[i].role = "assistant"}) = 1

Hits(batch, prefix) ==
    {i \in 1..Len(batch) :
        /\ "source" \in DOMAIN batch[i]
        /\ Len(batch[i].source) >= Len(prefix)
        /\ \A k \in 1..Len(prefix) : batch[i].source[k] = prefix[k]}

\* The step is a call of the condition, or a reset of it.
IsCall == called' # called /\ called'.op = "call"
IsReset == called' # called /\ called'.op = "reset"

\* C37: SourcePrefixTermination is a latch. A call on a condition that is
\* not terminated returns a stop message exactly when some message of the
\* batch has a source starting with the prefix, and then the condition is
\* terminated; otherwise it returns nothing and the condition stays as it
\* is. A call on a terminated condition raises TerminatedException and
\* changes nothing. Only a call that returns a stop message terminates the
\* condition and only reset ends that, leaving the condition as it was when
\* constructed.
C37_TerminationIsLatch ==
    [][condition # <<>> =>
          /\ (IsCall /\ ~condition[1].terminated) =>
                /\ called'.raised = None
                /\ (called'.returned # <<>>) <=> (Hits(called'.messages, condition[1].prefix) # {})
                /\ called'.returned # <<>> =>
                      /\ called'.returned[1].type = "StopMessage"
                      /\ condition' = <<[prefix |-> condition[1].prefix, terminated |-> TRUE]>>
                /\ called'.returned = <<>> => condition' = condition
          /\ (IsCall /\ condition[1].terminated) =>
                /\ called'.raised = "TerminatedException"
                /\ called'.returned = <<>>
                /\ condition' = condition
          /\ (~condition[1].terminated /\ condition'[1].terminated) =>
                IsCall /\ called'.returned # <<>>
          /\ (condition[1].terminated /\ ~condition'[1].terminated) => IsReset
          /\ IsReset => condition' = <<[prefix |-> condition[1].prefix, terminated |-> FALSE]>>
          /\ condition'[1].prefix = condition[1].prefix]_vars

\* A call has raised TerminatedException: the condition was terminated by
\* an earlier call and has not been reset, and it was given a batch with a
\* matching message again.
C37_Witness ==
    /\ condition # <<>>
    /\ condition[1].terminated
    /\ called.op = "call"
    /\ called.raised = "TerminatedException"
    /\ Hits(called.messages, condition[1].prefix) # {}
    /\ condition[1].prefix # <<>>

====
